---------------------------- MODULE Spec2Model ----------------------------
(***************************************************************************)
(* Verification model of the selki speech-analysis backend.                *)
(*                                                                         *)
(* Times are integers counting ticks of 0.05 s (1.0 s = 20 ticks), so that *)
(* the 0.1 s overlap tolerance of pauses_overlap is 2 ticks and overlaps   *)
(* below the tolerance (1 tick) exist.  A metric's confidence is an integer *)
(* counting 1/3100 (0.75 = 2325), so that 21/31, a confidence the          *)
(* intonation metric produces, is a value; a confidence that                *)
(* compute_overall_score returns, which is rounded to two decimals, counts  *)
(* hundredths.  Arithmetic is exact: a quotient is never formed,            *)
(* comparisons with a quotient are cross-multiplied.                        *)
(***************************************************************************)
EXTENDS Integers, Sequences, FiniteSets, TLC

VARIABLES
    pc,             \* position of the modelled call
    pauses,         \* merge_overlapping_pauses: the argument
    merged,         \* merge_overlapping_pauses: the returned list
    remerged,       \* the returned list fed to merge_overlapping_pauses again
    word_pauses,    \* combine_pauses: argument word_pauses
    vad_silences,   \* combine_pauses: argument vad_silences
    duration_sec,   \* combine_pauses: argument duration_sec
    boundary_margin,\* combine_pauses: argument boundary_margin
    combined,       \* combine_pauses: the returned list
    metrics,        \* compute_overall_score: the metrics dict
    overall,        \* compute_overall_score: the returned dict
    args,           \* a metric helper's call: the arguments
    result,         \* a metric helper's call: the returned value
    audio_json,     \* run_full_analysis: what audio_to_json returned
    requested,      \* run_full_analysis: the requested metric names, in order
    raising,        \* run_full_analysis: the metrics whose computation raises
    pos,            \* run_full_analysis: the runs made on audio_json so far
    timeline,       \* run_full_analysis: the timeline list
    response,       \* run_full_analysis: the returned dict
    earlier,        \* the response of the run before the names were permuted
    JOBS,           \* job_manager._JOBS: the job dicts by job_id
    tasks,          \* the process_job coroutines by job_id
    http            \* the last request served and the response to it

vars == <<pc, pauses, merged, remerged, word_pauses, vad_silences,
          duration_sec, boundary_margin, combined, metrics, overall,
          args, result, audio_json, requested, raising, pos, timeline,
          response, earlier, JOBS, tasks, http>>

mergeVars == <<pauses, merged, remerged>>
combineVars == <<word_pauses, vad_silences, duration_sec, boundary_margin, combined>>
scoreVars == <<metrics, overall>>
callVars == <<args, result>>
pipelineVars == <<audio_json, requested, raising, pos, timeline, response, earlier>>
jobVars == <<JOBS, tasks, http>>

---------------------------------------------------------------------------
(* Bounds of the model *)

MaxPauses == 3      \* candidates in one reconciliation
MaxTime == 3        \* last tick of a candidate given to merge_overlapping_pauses
MaxMetrics == 3     \* entries of the metrics dict

(* Program constants (in ticks of 0.05 s) *)

OverlapThreshold == 2
DefaultBoundaryMargin == 6

---------------------------------------------------------------------------
(* Arithmetic helpers *)

Min2(a, b) == IF a <= b THEN a ELSE b
Max2(a, b) == IF a >= b THEN a ELSE b

SetMin(S) == CHOOSE x \in S : \A y \in S : x <= y

\* h hundredths as a confidence (in 1/3100)
Hundredths(h) == 31 * h

---------------------------------------------------------------------------
(* pause_quality.py : pauses_overlap *)

OverlapDuration(p1, p2) ==
    LET overlap_start == Max2(p1.start, p2.start)
        overlap_end == Min2(p1.end, p2.end)
    IN  Max2(0, overlap_end - overlap_start)

pauses_overlap_strict(p1, p2) == OverlapDuration(p1, p2) > OverlapThreshold

pauses_overlap(p1, p2) == OverlapDuration(p1, p2) >= OverlapThreshold

---------------------------------------------------------------------------
(* pause_quality.py : merge_overlapping_pauses *)

\* sorted(pauses, key=lambda x: x["start"]) : Python's sort is stable, so p goes
\* after every element whose start is <= its own.
InsertByStart(s, p) ==
    LET before == {i \in 1..Len(s) : s[i].start <= p.start}
        k == Cardinality(before)
    IN  SubSeq(s, 1, k) \o <<p>> \o SubSeq(s, k + 1, Len(s))

RECURSIVE SortByStart(_)
SortByStart(s) ==
    IF s = <<>> THEN <<>>
    ELSE InsertByStart(SortByStart(SubSeq(s, 1, Len(s) - 1)), s[Len(s)])

\* the "both same type" branch: the merged dict
MergeSameSource_stale_duration(existing_pause, current_pause) ==
    [start |-> Min2(existing_pause.start, current_pause.start),
     end |-> Max2(existing_pause.end, current_pause.end),
     duration |-> existing_pause.duration,
     source |-> existing_pause.source]

MergeSameSource(existing_pause, current_pause) ==
    LET merged_start == Min2(existing_pause.start, current_pause.start)
        merged_end == Max2(existing_pause.end, current_pause.end)
    IN  [start |-> merged_start,
         end |-> merged_end,
         duration |-> merged_end - merged_start,
         source |-> existing_pause.source]

\* what the first overlapping element merged[i] becomes (the three branches)
ResolveOverlap_asr_wins(existing_pause, current_pause) ==
    IF current_pause.source = "asr" /\ existing_pause.source = "vad"
        THEN current_pause
    ELSE IF current_pause.source = "vad" /\ existing_pause.source = "asr"
        THEN existing_pause
    ELSE MergeSameSource(existing_pause, current_pause)

ResolveOverlap_keeps_existing(existing_pause, current_pause) ==
    IF current_pause.source # existing_pause.source THEN existing_pause
    ELSE MergeSameSource(existing_pause, current_pause)

ResolveOverlap(existing_pause, current_pause) ==
    IF current_pause.source = "vad" /\ existing_pause.source = "asr"
        THEN current_pause
    ELSE IF current_pause.source = "asr" /\ existing_pause.source = "vad"
        THEN existing_pause
    ELSE MergeSameSource(existing_pause, current_pause)

\* one iteration of "for current_pause in sorted_pauses"
MergeStep_always_append(acc, current_pause) == Append(acc, current_pause)

MergeStep_moves_to_end(acc, current_pause) ==
    IF \E i \in 1..Len(acc) : pauses_overlap(current_pause, acc[i])
    THEN LET i == CHOOSE x \in 1..Len(acc) :
                    /\ pauses_overlap(current_pause, acc[x])
                    /\ \A y \in 1..(x - 1) : ~pauses_overlap(current_pause, acc[y])
         IN  SubSeq(acc, 1, i - 1) \o SubSeq(acc, i + 1, Len(acc))
                \o <<ResolveOverlap(acc[i], current_pause)>>
    ELSE Append(acc, current_pause)

MergeStep(acc, current_pause) ==
    IF acc = <<>> THEN <<current_pause>>
    ELSE LET hits == {i \in 1..Len(acc) : pauses_overlap(current_pause, acc[i])}
         IN  IF hits = {} THEN Append(acc, current_pause)
             ELSE LET i == SetMin(hits)
                  IN  [acc EXCEPT ![i] = ResolveOverlap(acc[i], current_pause)]

RECURSIVE MergeLoop(_, _)
MergeLoop(acc, rest) ==
    IF rest = <<>> THEN acc
    ELSE MergeLoop(MergeStep(acc, rest[1]), SubSeq(rest, 2, Len(rest)))

merge_overlapping_pauses_unsorted_result(ps) ==
    IF ps = <<>> THEN <<>>
    ELSE MergeLoop(<<>>, SortByStart(ps))

merge_overlapping_pauses(ps) ==
    IF ps = <<>> THEN <<>>
    ELSE SortByStart(MergeLoop(<<>>, SortByStart(ps)))

---------------------------------------------------------------------------
(* pause_quality.py : combine_pauses *)

\* 4 * margin, where margin = min(boundary_margin, duration_sec / 4.0)
Margin4(d, bm) == Min2(4 * bm, d)

\* the three "continue" tests of the loop over vad_silences
VadKept_no_trailing_test(s, d, bm) ==
    /\ Max2(0, s.end - s.start) > 0
    /\ ~(4 * s.start <= Margin4(d, bm))

VadKept(s, d, bm) ==
    /\ ~(Max2(0, s.end - s.start) <= 0)
    /\ ~(4 * s.start <= Margin4(d, bm))
    /\ ~(4 * s.end >= 4 * d - Margin4(d, bm))

AsrCandidates(wp, d, bm) ==
    [i \in 1..Len(wp) |->
        [start |-> wp[i].start, end |-> wp[i].end,
         duration |-> wp[i].duration, source |-> "asr"]]

VadCandidates(vs, d, bm) ==
    IF vs # <<>> /\ d > 0
    THEN LET Kept(s) == VadKept(s, d, bm)
             kept == SelectSeq(vs, Kept)
         IN  [i \in 1..Len(kept) |->
                [start |-> kept[i].start, end |-> kept[i].end,
                 duration |-> Max2(0, kept[i].end - kept[i].start),
                 source |-> "vad"]]
    ELSE <<>>

all_pauses(wp, vs, d, bm) == AsrCandidates(wp, d, bm) \o VadCandidates(vs, d, bm)

combine_pauses(wp, vs, d, bm) == merge_overlapping_pauses(all_pauses(wp, vs, d, bm))

---------------------------------------------------------------------------
(* run_pipeline.py : compute_overall_score *)

\* score_0_100 is <<>> for None and <<n>> for the integer n
None == <<>>

\* the two "continue" tests of the loop over metrics.items()
Contributes_ignores_abstained(metric_data) == metric_data.score_0_100 # None

Contributes(metric_data) ==
    /\ ~metric_data.abstained
    /\ metric_data.score_0_100 # None

Contributing(ms) == {name \in DOMAIN ms : Contributes(ms[name])}

RECURSIVE SumOver(_, _)
SumOver(f, S) ==
    IF S = {} THEN 0
    ELSE LET x == CHOOSE y \in S : TRUE
         IN  f[x] + SumOver(f, S \ {x})

\* sum(weighted_scores)
WeightedSum_unweighted(ms) ==
    SumOver([name \in Contributing(ms) |->
                ms[name].score_0_100[1] * Hundredths(100)],
            Contributing(ms))

WeightedSum(ms) ==
    SumOver([name \in Contributing(ms) |->
                ms[name].score_0_100[1] * ms[name].confidence],
            Contributing(ms))

\* sum(confidences)
ConfidenceSum(ms) ==
    SumOver([name \in Contributing(ms) |-> ms[name].confidence], Contributing(ms))

\* "if not confidences or sum(confidences) == 0"
NoValidMetrics_ignores_zero_sum(ms) == Contributing(ms) = {}

NoValidMetrics(ms) == Contributing(ms) = {} \/ ConfidenceSum(ms) = 0

\* round(num / den) for den > 0.  Python rounds an exact half to the even
\* neighbour, but the float quotient of an exact half may fall on either side
\* of it, so both neighbours are outcomes.
RoundedQuotients(num, den) ==
    LET q == num \div den
        r == num % den
    IN  IF 2 * r < den THEN {q}
        ELSE IF 2 * r > den THEN {q + 1}
        ELSE {q, q + 1}

\* the if/elif chain on overall_score = w / c.  A float quotient whose exact
\* value is a threshold may fall just below it, so there both labels are
\* outcomes.
LabelAt(w, c) ==
    IF w >= 85 * c THEN "excellent"
    ELSE IF w >= 70 * c THEN "good"
    ELSE IF w >= 50 * c THEN "needs_improvement"
    ELSE "poor"

LabelsOf(w, c) ==
    {LabelAt(w, c)} \cup
        (IF w = 85 * c THEN {"good"}
         ELSE IF w = 70 * c THEN {"needs_improvement"}
         ELSE IF w = 50 * c THEN {"poor"}
         ELSE {})

UnknownScore == [score_0_100 |-> 0, label |-> "unknown", confidence |-> 0]

Raised(error) == [raised |-> error]

\* every dict compute_overall_score can return for ms (or the exception the
\* division raises)
compute_overall_score(ms) ==
    IF NoValidMetrics(ms) THEN {UnknownScore}
    ELSE IF ConfidenceSum(ms) = 0 THEN {Raised("ZeroDivisionError")}
    ELSE {[score_0_100 |-> s, label |-> l, confidence |-> cf] :
            s \in RoundedQuotients(WeightedSum(ms), ConfidenceSum(ms)),
            l \in LabelsOf(WeightedSum(ms), ConfidenceSum(ms)),
            cf \in RoundedQuotients(ConfidenceSum(ms),
                                    Hundredths(Cardinality(Contributing(ms))))}

---------------------------------------------------------------------------
(* Inputs *)

Sources == {"asr", "vad"}

Pause(s, e, src) == [start |-> s, end |-> e, duration |-> e - s, source |-> src]

Intervals == {iv \in (0..MaxTime) \X (0..MaxTime) : iv[1] <= iv[2]}

Candidates == {Pause(iv[1], iv[2], src) : iv \in Intervals, src \in Sources}

\* the candidates of positive length
ProperCandidates == {p \in Candidates : p.start < p.end}

\* the lists of tests/scripts/test_pause_overlap.py (1.0 s = 20 ticks)
TestVadPriority == <<Pause(20, 40, "asr"), Pause(30, 50, "vad")>>
TestSameType == <<Pause(20, 40, "asr"), Pause(36, 60, "asr")>>
TestMultipleOverlaps ==
    <<Pause(20, 40, "asr"), Pause(30, 50, "vad"), Pause(60, 80, "asr"),
      Pause(64, 76, "vad"), Pause(100, 120, "vad")>>

\* up to MaxPauses candidates of positive length, or fewer candidates some of
\* which may have length 0, or a list of the tests
PauseLists ==
    UNION {[1..n -> ProperCandidates] : n \in 0..MaxPauses}
        \cup UNION {[1..n -> Candidates] : n \in 0..(MaxPauses - 1)}
        \cup {TestVadPriority, TestSameType, TestMultipleOverlaps}

\* the metric names of run_full_analysis, in its order
MetricNameSeq ==
    <<"pace", "pause_quality", "fillers", "intonation", "content_structure",
      "confidence_cv">>

MetricNames == {MetricNameSeq[i] : i \in 1..Min2(MaxMetrics, Len(MetricNameSeq))}

ScoreChoices == {0, 60, 84, 85, 90}
ConfidenceChoices == {0, 50, 75, 80}

\* a scored metric, its confidence given in hundredths
Scored(s, cf) ==
    [abstained |-> FALSE, score_0_100 |-> <<s>>, confidence |-> Hundredths(cf)]

\* _build_abstained_metric
AbstainedMetric == [abstained |-> TRUE, score_0_100 |-> None, confidence |-> 0]

\* a metric's result: scored; abstained; flagged abstained though it carries a
\* score; not flagged though its score is None
MetricResults ==
    {Scored(s, cf) : s \in ScoreChoices, cf \in ConfidenceChoices}
        \cup {AbstainedMetric,
              [abstained |-> TRUE, score_0_100 |-> <<90>>,
               confidence |-> Hundredths(80)],
              [abstained |-> FALSE, score_0_100 |-> None,
               confidence |-> Hundredths(75)]}

\* the aggregation example: (90, 0.8), (60, 0.5) and one abstained metric
ExampleMetrics ==
    [name \in {"pace", "pause_quality", "fillers"} |->
        IF name = "pace" THEN Scored(90, 80)
        ELSE IF name = "pause_quality" THEN Scored(60, 50)
        ELSE AbstainedMetric]

NotCalled == <<"not called">>

\* no helper call and no pipeline run in this behaviour
CallIdle == args = <<>> /\ result = NotCalled
PipelineIdle ==
    /\ audio_json = <<>> /\ requested = <<>> /\ raising = {} /\ pos = 0
    /\ timeline = <<>> /\ response = NotCalled /\ earlier = NotCalled
JobsIdle == JOBS = <<>> /\ tasks = <<>> /\ http = <<>>

SingleSource(ps) == \A i, j \in 1..Len(ps) : ps[i].source = ps[j].source


\* combine_pauses: the ticks candidates start and end at, around the trimming
\* margins of the modelled clips
ClipTimes == {0, 3, 5, 7, 10}

ClipIntervals == {iv \in ClipTimes \X ClipTimes : iv[1] <= iv[2]}

WordPause(s, e) == [start |-> s, end |-> e, duration |-> e - s]
Silence(s, e) == [start |-> s, end |-> e]

WordPauseChoices == {WordPause(iv[1], iv[2]) : iv \in ClipIntervals}

\* one silence of negative length besides the well-formed ones
SilenceChoices == {Silence(iv[1], iv[2]) : iv \in ClipIntervals} \cup {Silence(7, 5)}

\* (duration_sec, boundary_margin): no clip; a 0.5 s clip, whose margin is
\* duration/4 = 2.5 ticks; a 0.65 s clip with a margin of 3 ticks, which a
\* candidate starting at tick 3 or ending at tick 10 meets exactly
ClipChoices == {<<0, DefaultBoundaryMargin>>, <<10, DefaultBoundaryMargin>>, <<13, 3>>}

\* tests/scripts/test_pause_overlap.py : test_combine_pauses_integration
\* (a 10 s clip, boundary_margin = 0.3)
TestCombineWordPauses == <<WordPause(20, 40), WordPause(60, 80)>>
TestCombineVadSilences ==
    <<Silence(0, 10), Silence(30, 50), Silence(90, 100), Silence(190, 200)>>
TestCombineClip == <<200, DefaultBoundaryMargin>>

---------------------------------------------------------------------------
(* SpecMerge: merge_overlapping_pauses applied to a list, and applied again *)
(* to what it returned when that is a list of one source.                   *)

InitMerge ==
    /\ pc = "start"
    /\ pauses \in PauseLists
    /\ merged = NotCalled
    /\ remerged = NotCalled
    /\ word_pauses = <<>> /\ vad_silences = <<>>
    /\ duration_sec = 0 /\ boundary_margin = 0 /\ combined = NotCalled
    /\ metrics = <<>> /\ overall = NotCalled
    /\ CallIdle /\ PipelineIdle /\ JobsIdle

MergeOverlappingPauses ==
    /\ pc = "start"
    /\ merged' = merge_overlapping_pauses(pauses)
    /\ pc' = "merged"
    /\ UNCHANGED <<pauses, remerged>>
    /\ UNCHANGED combineVars /\ UNCHANGED scoreVars
    /\ UNCHANGED callVars /\ UNCHANGED pipelineVars /\ UNCHANGED jobVars

MergeAgain ==
    /\ pc = "merged"
    /\ SingleSource(merged)
    /\ remerged' = merge_overlapping_pauses(merged)
    /\ pc' = "remerged"
    /\ UNCHANGED <<pauses, merged>>
    /\ UNCHANGED combineVars /\ UNCHANGED scoreVars
    /\ UNCHANGED callVars /\ UNCHANGED pipelineVars /\ UNCHANGED jobVars

NextMerge == MergeOverlappingPauses \/ MergeAgain

SpecMerge == InitMerge /\ [][NextMerge]_vars

---------------------------------------------------------------------------
(* SpecCombine: combine_pauses applied to word pauses and VAD silences *)

InitCombine ==
    /\ pc = "start"
    /\ \/ /\ \E nw \in 0..MaxPauses : \E nv \in 0..(MaxPauses - nw) :
                /\ word_pauses \in [1..nw -> WordPauseChoices]
                /\ vad_silences \in [1..nv -> SilenceChoices]
          /\ \E c \in ClipChoices : duration_sec = c[1] /\ boundary_margin = c[2]
       \/ /\ word_pauses = TestCombineWordPauses
          /\ vad_silences = TestCombineVadSilences
          /\ duration_sec = TestCombineClip[1]
          /\ boundary_margin = TestCombineClip[2]
    /\ combined = NotCalled
    /\ pauses = <<>> /\ merged = NotCalled /\ remerged = NotCalled
    /\ metrics = <<>> /\ overall = NotCalled
    /\ CallIdle /\ PipelineIdle /\ JobsIdle

CombinePauses ==
    /\ pc = "start"
    /\ combined' = combine_pauses(word_pauses, vad_silences, duration_sec, boundary_margin)
    /\ pc' = "combined"
    /\ UNCHANGED <<word_pauses, vad_silences, duration_sec, boundary_margin>>
    /\ UNCHANGED mergeVars /\ UNCHANGED scoreVars
    /\ UNCHANGED callVars /\ UNCHANGED pipelineVars /\ UNCHANGED jobVars

NextCombine == CombinePauses

SpecCombine == InitCombine /\ [][NextCombine]_vars

---------------------------------------------------------------------------
(* SpecScore: compute_overall_score applied to a metrics dict *)

InitScore ==
    /\ pc = "start"
    /\ \/ \E names \in SUBSET MetricNames : metrics \in [names -> MetricResults]
       \/ metrics = ExampleMetrics
    /\ overall = NotCalled
    /\ pauses = <<>> /\ merged = NotCalled /\ remerged = NotCalled
    /\ word_pauses = <<>> /\ vad_silences = <<>>
    /\ duration_sec = 0 /\ boundary_margin = 0 /\ combined = NotCalled
    /\ CallIdle /\ PipelineIdle /\ JobsIdle

ComputeOverallScore ==
    /\ pc = "start"
    /\ overall' \in compute_overall_score(metrics)
    /\ pc' = "scored"
    /\ UNCHANGED metrics
    /\ UNCHANGED mergeVars /\ UNCHANGED combineVars
    /\ UNCHANGED callVars /\ UNCHANGED pipelineVars /\ UNCHANGED jobVars

NextScore == ComputeOverallScore

SpecScore == InitScore /\ [][NextScore]_vars

---------------------------------------------------------------------------
(* Reconciliation claims *)

Returned == pc = "merged"

\* C1: in the list merge_overlapping_pauses returns, no two distinct pauses
\* overlap by the tolerance (0.1 s) or more.
C1_NoSignificantOverlap ==
    Returned =>
        \A i, j \in 1..Len(merged) :
            i # j =>
                Max2(0, Min2(merged[i].end, merged[j].end)
                            - Max2(merged[i].start, merged[j].start)) < OverlapThreshold

\* three candidates, two of which overlapped by the tolerance and were merged,
\* the two returned pauses still sharing one tick
C1_Witness ==
    /\ pc = "merged"
    /\ Len(pauses) = 3 /\ Len(merged) = 2
    /\ \E i, j \in 1..Len(pauses) :
            i # j /\ OverlapDuration(pauses[i], pauses[j]) >= OverlapThreshold
    /\ OverlapDuration(merged[1], merged[2]) = 1

\* C2 as stated: every pair of distinct returned pauses has overlap duration 0.
C2_ZeroOverlap ==
    Returned =>
        \A i, j \in 1..Len(merged) :
            i # j => OverlapDuration(merged[i], merged[j]) = 0

\* C2 as amended: every pair of distinct returned pauses overlaps by less than
\* the 0.1 s tolerance, and by exactly 0 when no two candidates overlapped by a
\* positive amount below the tolerance.
C2_OverlapBelowTolerance ==
    Returned =>
        /\ \A i, j \in 1..Len(merged) :
                i # j => OverlapDuration(merged[i], merged[j]) < OverlapThreshold
        /\ (\A i, j \in 1..Len(pauses) :
                i # j => \/ OverlapDuration(pauses[i], pauses[j]) = 0
                         \/ OverlapDuration(pauses[i], pauses[j]) >= OverlapThreshold)
            => \A i, j \in 1..Len(merged) :
                    i # j => OverlapDuration(merged[i], merged[j]) = 0

\* two asr pauses sharing 0.05 s are both returned
C2_Witness ==
    /\ pc = "merged"
    /\ pauses = <<Pause(0, 2, "asr"), Pause(1, 3, "asr")>>
    /\ merged = pauses
    /\ OverlapDuration(merged[1], merged[2]) = 1

\* C3: one asr pause and one vad pause that overlap by at least 0.1 s, in
\* either order, give exactly one pause: the vad pause, unchanged.
C3_VadPriority ==
    (/\ Returned
     /\ Len(pauses) = 2
     /\ pauses[1].source # pauses[2].source
     /\ OverlapDuration(pauses[1], pauses[2]) >= OverlapThreshold)
    => LET v == IF pauses[1].source = "vad" THEN pauses[1] ELSE pauses[2]
       IN  merged = <<v>>

\* asr [1.0,2.0] + vad [1.5,2.5] gives one vad pause [1.5,2.5]
C3_Witness ==
    /\ pc = "merged"
    /\ pauses = TestVadPriority
    /\ merged = <<Pause(30, 50, "vad")>>

\* C4: at every iteration, a candidate that overlaps an accepted pause of its
\* own source by at least 0.1 s replaces that pause by the span
\* [min(starts), max(ends)] with duration = end - start and the same source;
\* two such candidates alone give exactly that span.
C4_SameSourceMerge ==
    Returned =>
        /\ LET sorted_pauses == SortByStart(pauses)
               accs == [k \in 0..Len(pauses) |->
                            MergeLoop(<<>>, SubSeq(sorted_pauses, 1, k))]
           IN  \A k \in 1..Len(pauses) :
                 LET acc == accs[k - 1]
                     cur == sorted_pauses[k]
                 IN  \A i \in 1..Len(acc) :
                        (/\ acc[i].source = cur.source
                         /\ OverlapDuration(acc[i], cur) >= OverlapThreshold)
                        => accs[k] =
                             [acc EXCEPT ![i] =
                                [start |-> Min2(acc[i].start, cur.start),
                                 end |-> Max2(acc[i].end, cur.end),
                                 duration |-> Max2(acc[i].end, cur.end)
                                                - Min2(acc[i].start, cur.start),
                                 source |-> cur.source]]
        /\ (/\ Len(pauses) = 2
            /\ pauses[1].source = pauses[2].source
            /\ OverlapDuration(pauses[1], pauses[2]) >= OverlapThreshold)
           => /\ Len(merged) = 1
              /\ merged[1].start = Min2(pauses[1].start, pauses[2].start)
              /\ merged[1].end = Max2(pauses[1].end, pauses[2].end)
              /\ merged[1].duration = merged[1].end - merged[1].start
              /\ merged[1].source = pauses[1].source

\* asr [1.0,2.0] + asr [1.8,3.0] gives one asr pause [1.0,3.0] of duration 2.0
C4_Witness ==
    /\ pc = "merged"
    /\ pauses = TestSameType
    /\ merged = <<[start |-> 20, end |-> 60, duration |-> 40, source |-> "asr"]>>

C6_Idempotent ==
    (pc = "remerged" /\ SingleSource(merged)) => remerged = merged

\* a list that the first call changed and the second call leaves alone
C6_Witness ==
    /\ pc = "remerged"
    /\ Len(merged) >= 2 /\ SingleSource(merged)
    /\ merged # pauses
    /\ remerged = merged

---------------------------------------------------------------------------
(* Aggregation claims *)

Abs(x) == IF x >= 0 THEN x ELSE -x

SetMax(S) == CHOOSE x \in S : \A y \in S : x >= y

\* the metrics a reader of the contract expects to count: not abstained, score
\* not null
Kept == {name \in DOMAIN metrics :
            ~metrics[name].abstained /\ metrics[name].score_0_100 # <<>>}

KeptScores == {metrics[name].score_0_100[1] : name \in Kept}

\* sum of score * confidence and sum of confidence over Kept
KeptWeighted == SumOver([name \in Kept |->
                    metrics[name].score_0_100[1] * metrics[name].confidence], Kept)
KeptConfidence == SumOver([name \in Kept |-> metrics[name].confidence], Kept)

ScoreLabels == {"excellent", "good", "needs_improvement", "poor", "unknown"}

\* C7 as stated: over the metrics that are neither abstained nor null, the
\* score is the weighted mean rounded to an integer and the confidence is the
\* mean of their confidences.  Stated for the inputs whose mean confidence is
\* not half-way between two hundredths, where the returned confidence does not
\* depend on float rounding.
C7_ExactMeanConfidence ==
    (/\ pc = "scored" /\ Kept # {} /\ KeptConfidence > 0
     /\ 2 * (KeptConfidence % Hundredths(Cardinality(Kept)))
            # Hundredths(Cardinality(Kept))) =>
        /\ overall.score_0_100 \in Int
        /\ 2 * Abs(overall.score_0_100 * KeptConfidence - KeptWeighted) <= KeptConfidence
        /\ Hundredths(overall.confidence * Cardinality(Kept)) = KeptConfidence

\* C7 as amended: the score is the weighted mean rounded to a nearest integer
\* and the confidence is the mean of the contributing confidences rounded to
\* two decimals; (90, 0.8), (60, 0.5) and an abstained metric give score 78,
\* confidence 0.65, label good.
C7_WeightedMean ==
    pc = "scored" =>
        /\ (Kept # {} /\ KeptConfidence > 0) =>
                /\ overall.score_0_100 \in Int
                /\ 2 * Abs(overall.score_0_100 * KeptConfidence - KeptWeighted)
                        <= KeptConfidence
                /\ 2 * Abs(Hundredths(overall.confidence * Cardinality(Kept))
                                - KeptConfidence)
                        <= Hundredths(Cardinality(Kept))
        /\ metrics = ExampleMetrics =>
                overall = [score_0_100 |-> 78, label |-> "good", confidence |-> 65]

\* the aggregation example has been scored
C7_Witness ==
    /\ pc = "scored"
    /\ metrics = ExampleMetrics
    /\ overall = [score_0_100 |-> 78, label |-> "good", confidence |-> 65]

\* C8: with at least one contributing metric, the label agrees with the
\* returned integer score: excellent iff score >= 85, good iff 70..84,
\* needs_improvement iff 50..69, poor iff < 50.  Stated for the inputs whose
\* weighted mean is neither half-way between two integers nor exactly a
\* threshold, where the returned dict does not depend on float rounding.
C8_LabelAgreesWithScore ==
    (/\ pc = "scored" /\ Kept # {} /\ KeptConfidence > 0
     /\ 2 * (KeptWeighted % KeptConfidence) # KeptConfidence
     /\ KeptWeighted \notin {85 * KeptConfidence, 70 * KeptConfidence, 50 * KeptConfidence})
    => /\ overall.label = "excellent" <=> overall.score_0_100 >= 85
       /\ overall.label = "good" <=> overall.score_0_100 \in 70..84
       /\ overall.label = "needs_improvement" <=> overall.score_0_100 \in 50..69
       /\ overall.label = "poor" <=> overall.score_0_100 < 50

\* C9 as stated: the score is an integer in [0,100] between the smallest and
\* the largest contributing score, the confidence is in [0,1], the label is one
\* of the five.
C9_ScoreBetweenContributors ==
    pc = "scored" =>
        /\ overall.score_0_100 \in 0..100
        /\ Kept # {} => /\ overall.score_0_100 >= SetMin(KeptScores)
                        /\ overall.score_0_100 <= SetMax(KeptScores)
        /\ overall.confidence \in 0..100
        /\ overall.label \in ScoreLabels

\* C9 as amended: the score is an integer in [0,100], between the smallest and
\* the largest contributing score when the contributing confidences do not sum
\* to zero and 0 (label unknown) when they do; the confidence is in [0,1]; the
\* label is one of the five.
C9_ScoreInRange ==
    pc = "scored" =>
        /\ overall.score_0_100 \in 0..100
        /\ (Kept # {} /\ KeptConfidence > 0) =>
                /\ overall.score_0_100 >= SetMin(KeptScores)
                /\ overall.score_0_100 <= SetMax(KeptScores)
                /\ overall.label # "unknown"
        /\ (Kept # {} /\ KeptConfidence = 0) =>
                overall.score_0_100 = 0 /\ overall.label = "unknown"
        /\ overall.confidence \in 0..100
        /\ overall.label \in ScoreLabels

\* two contributors with different scores and confidences, the returned score
\* strictly between them
C9_Witness ==
    /\ pc = "scored"
    /\ Cardinality(Kept) = 2 /\ KeptScores = {60, 90}
    /\ \E a, b \in Kept : metrics[a].confidence < metrics[b].confidence
    /\ overall.score_0_100 > 60 /\ overall.score_0_100 < 90

\* C10: when the dict is empty, or every metric is abstained or has a null
\* score, or the contributing confidences sum to zero, the call returns
\* {score 0, label unknown, confidence 0.0} and raises nothing.
C10_UnknownWhenNoContribution ==
    (pc = "scored" /\ (Kept = {} \/ KeptConfidence = 0)) =>
        overall = [score_0_100 |-> 0, label |-> "unknown", confidence |-> 0]

\* a metric with a score and confidence 0.0 beside an abstained one
C10_Witness ==
    /\ pc = "scored"
    /\ Kept # {} /\ KeptConfidence = 0
    /\ \E name \in DOMAIN metrics : metrics[name].abstained
    /\ overall = [score_0_100 |-> 0, label |-> "unknown", confidence |-> 0]

---------------------------------------------------------------------------
(* metrics/pace.py *)

\* 60.0 s, 30.0 s (in ticks) and the bounds of the optimal range
TicksPerMinute == 1200
DefaultSegmentLength == 600
SlowBelowWpm == 110
FastAboveWpm == 170

\* A float that is, or is next to, a whole number of ticks: err is the sign of
\* (the float - that number of ticks).
Fl(t, e) == [ticks |-> t, err |-> e]
Exact(t) == Fl(t, 0)

Sign(x) == IF x > 0 THEN 1 ELSE IF x < 0 THEN -1 ELSE 0

FlLess(a, b) == a.ticks < b.ticks \/ (a.ticks = b.ticks /\ a.err < b.err)
FlMin(a, b) == IF FlLess(b, a) THEN b ELSE a
FlMinus(a, b) == Fl(a.ticks - b.ticks, Sign(a.err - b.err))
FlPositive(a) == FlLess(Exact(0), a)

Word(text, s, e) == [text |-> text, start |-> s, end |-> e]

\* (len(words), duration in ticks) for which num_words / (duration_sec / 60.0)
\* is a float below the exact quotient: 121 / (66.0 / 60.0) is
\* 109.99999999999999.  For the other modelled inputs whose exact quotient is
\* 110 or 170 the float quotient is exact.
WpmRoundedDown == {<<121, 1320>>}

\* compute_wpm: the rate is kept as "words per duration", with the sign of the
\* float quotient's error
compute_wpm(words, duration) ==
    IF ~FlPositive(duration)
    THEN [words |-> 0, per |-> Exact(TicksPerMinute), err |-> 0]
    ELSE [words |-> Len(words), per |-> duration,
          err |-> IF duration.err = 0 /\ <<Len(words), duration.ticks>> \in WpmRoundedDown
                  THEN -1 ELSE 0]

\* the sign of (wpm - bound), for a bound > 0
WpmSign(wpm, bound) ==
    IF wpm.per.ticks = 0 THEN (IF wpm.words > 0 THEN 1 ELSE -1)
    ELSE LET d == wpm.words * TicksPerMinute - bound * wpm.per.ticks
         IN  IF d # 0 THEN Sign(d)
             ELSE IF wpm.err # 0 THEN wpm.err
             ELSE -wpm.per.err

\* the sign of (segment_length added k times to 0.0) - (k * segment_length):
\* 0.15 + 0.15 + 0.15 is 0.44999999999999996; the sums of a length that is a
\* multiple of 0.25 s are exact; the sums of 0.15 are exact for the other
\* k <= 8.
AccumulatedError(segment_length, k) ==
    IF segment_length = 3 /\ k = 3 THEN -1 ELSE 0

\* the while loop of compute_segment_wpm, entered for the k-th time
RECURSIVE SegmentLoop(_, _, _, _, _)
SegmentLoop(words, duration_sec_, segment_length, k, segments) ==
    LET t == Fl(k * segment_length, AccumulatedError(segment_length, k))
        segment_end ==
            FlMin(Fl((k + 1) * segment_length, AccumulatedError(segment_length, k + 1)),
                  Exact(duration_sec_))
        seg_duration == FlMinus(segment_end, t)
        InSegment(w) == ~FlLess(Exact(w.start), t) /\ FlLess(Exact(w.start), segment_end)
        segment_words == SelectSeq(words, InSegment)
    IN  IF ~FlLess(t, Exact(duration_sec_)) THEN segments
        ELSE IF ~FlPositive(seg_duration) THEN segments
        ELSE SegmentLoop(words, duration_sec_, segment_length, k + 1,
                Append(segments,
                       [start_sec |-> t, end_sec |-> segment_end,
                        wpm |-> compute_wpm(segment_words, seg_duration)]))

compute_segment_wpm(words, duration_sec_, segment_length) ==
    IF words = <<>> \/ duration_sec_ <= 0 THEN <<>>
    ELSE SegmentLoop(words, duration_sec_, segment_length, 0, <<>>)

label_from_wpm(wpm) ==
    IF WpmSign(wpm, SlowBelowWpm) < 0 THEN "too_slow"
    ELSE IF WpmSign(wpm, FastAboveWpm) <= 0 THEN "optimal"
    ELSE "too_fast"

pace_score_from_label(label) ==
    IF label = "too_slow" THEN 40
    ELSE IF label = "optimal" THEN 90
    ELSE IF label = "too_fast" THEN 50
    ELSE 0

\* feedback_for_segment: <<>> for None
feedback_for_segment(seg) ==
    IF WpmSign(seg.wpm, SlowBelowWpm) < 0
    THEN <<[start_sec |-> seg.start_sec, end_sec |-> seg.end_sec,
            tip_type |-> "pace", about |-> "slow"]>>
    ELSE IF WpmSign(seg.wpm, FastAboveWpm) > 0
    THEN <<[start_sec |-> seg.start_sec, end_sec |-> seg.end_sec,
            tip_type |-> "pace", about |-> "fast"]>>
    ELSE <<>>

RECURSIVE SegmentFeedback(_)
SegmentFeedback(seg_stats) ==
    IF seg_stats = <<>> THEN <<>>
    ELSE feedback_for_segment(Head(seg_stats)) \o SegmentFeedback(Tail(seg_stats))

\* the dict every metric returns when it abstains
Abstained_keeps_confidence(reason) ==
    [score_0_100 |-> None, label |-> "abstained", confidence |-> Hundredths(75),
     abstained |-> TRUE, details |-> [reason |-> reason], feedback |-> <<>>]

Abstained(reason) ==
    [score_0_100 |-> None, label |-> "abstained", confidence |-> 0,
     abstained |-> TRUE, details |-> [reason |-> reason], feedback |-> <<>>]

compute_pace_metric(words, duration_sec_) ==
    IF words = <<>> \/ duration_sec_ <= 0 THEN Abstained("no_words")
    ELSE LET wpm == compute_wpm(words, Exact(duration_sec_))
             label == label_from_wpm(wpm)
             seg_stats == compute_segment_wpm(words, duration_sec_, DefaultSegmentLength)
             overall_feedback ==
                <<[start_sec |-> Exact(0), end_sec |-> Exact(duration_sec_),
                   tip_type |-> "pace", about |-> label]>>
         IN  [score_0_100 |-> <<pace_score_from_label(label)>>,
              label |-> label,
              confidence |-> Hundredths(75),
              abstained |-> FALSE,
              details |-> [average_wpm |-> wpm, segment_stats |-> seg_stats],
              feedback |-> overall_feedback \o SegmentFeedback(seg_stats)]

---------------------------------------------------------------------------
(* SpecPace: compute_segment_wpm and compute_pace_metric applied to a word   *)
(* list                                                                      *)

MaxWords == 2       \* words of a freely chosen word list

\* word starts around the windows of the short and of the long clips
WordStarts == {0, 3, 8, 9, 600, 1799, 1800, 2099}

WordChoices == {Word("word", s, s + 1) : s \in WordStarts}

\* n words spread evenly over [0, d)
EvenWords(n, d) == [i \in 1..n |-> Word("word", ((i - 1) * d) \div n, ((i - 1) * d) \div n + 1)]

\* (duration_sec, segment_length): 105 s, 20 s, 60 s and 30 s in windows of
\* 30 s; clips of 0.4 .. 0.5 s in windows of 0.15 s and of 0.25 s; no clip and
\* a negative duration
SegmentChoices ==
    {<<2100, 600>>, <<400, 600>>, <<1200, 600>>, <<600, 600>>,
     <<8, 3>>, <<9, 3>>, <<10, 3>>, <<10, 5>>, <<0, 600>>, <<-20, 600>>}

\* (number of words, duration): rates of 109, 110, 111, 170 and 171 wpm over
\* 66 s, 110 and 170 wpm over 6 s, 110 wpm over 30 s, 2 words over 66 s
RateChoices ==
    {<<120, 1320>>, <<121, 1320>>, <<122, 1320>>, <<187, 1320>>, <<188, 1320>>,
     <<11, 120>>, <<17, 120>>, <<55, 600>>, <<2, 1320>>}

PaceArgs(words, d, l) == [words |-> words, duration_sec |-> d, segment_length |-> l]

InitPace ==
    /\ pc = "start"
    /\ \/ \E n \in 0..MaxWords : \E ws \in [1..n -> WordChoices] :
            \E c \in SegmentChoices : args = PaceArgs(ws, c[1], c[2])
       \/ \E r \in RateChoices :
            args = PaceArgs(EvenWords(r[1], r[2]), r[2], DefaultSegmentLength)
    /\ result = NotCalled
    /\ pauses = <<>> /\ merged = NotCalled /\ remerged = NotCalled
    /\ word_pauses = <<>> /\ vad_silences = <<>>
    /\ duration_sec = 0 /\ boundary_margin = 0 /\ combined = NotCalled
    /\ metrics = <<>> /\ overall = NotCalled
    /\ PipelineIdle /\ JobsIdle

ComputeSegmentWpm ==
    /\ pc = "start"
    /\ result' = compute_segment_wpm(args.words, args.duration_sec, args.segment_length)
    /\ pc' = "segmented"
    /\ UNCHANGED args
    /\ UNCHANGED mergeVars /\ UNCHANGED combineVars /\ UNCHANGED scoreVars
    /\ UNCHANGED pipelineVars /\ UNCHANGED jobVars

ComputePaceMetric ==
    /\ pc = "start"
    /\ result' = compute_pace_metric(args.words, args.duration_sec)
    /\ pc' = "paced"
    /\ UNCHANGED args
    /\ UNCHANGED mergeVars /\ UNCHANGED combineVars /\ UNCHANGED scoreVars
    /\ UNCHANGED pipelineVars /\ UNCHANGED jobVars

NextPace == ComputeSegmentWpm \/ ComputePaceMetric

SpecPace == InitPace /\ [][NextPace]_vars

---------------------------------------------------------------------------
(* Pace claims *)

\* ceil(a / b) for a >= 0, b > 0
CeilDiv(a, b) == (a + b - 1) \div b

WordsStartingIn(words, lo, hi) ==
    Cardinality({i \in 1..Len(words) : words[i].start >= lo /\ words[i].start < hi})

\* C15: for a duration D > 0, a segment length L > 0 and a non-empty word
\* list, compute_segment_wpm returns the windows [k*L, min((k+1)*L, D)) for
\* k = 0 .. ceil(D/L)-1, and each window's rate is the number of words
\* starting in it over the window's own width; for D = 105 s, L = 30 s the
\* windows are [0,30), [30,60), [60,90), [90,105).
C15_FixedSegmentation ==
    (/\ pc = "segmented"
     /\ args.duration_sec > 0 /\ args.segment_length > 0 /\ args.words # <<>>) =>
        LET D == args.duration_sec
            L == args.segment_length
        IN  /\ Len(result) = CeilDiv(D, L)
            /\ \A k \in 1..Len(result) :
                /\ result[k].start_sec = Exact((k - 1) * L)
                /\ result[k].end_sec = Exact(Min2(k * L, D))
                /\ result[k].wpm.words
                        = WordsStartingIn(args.words, (k - 1) * L, Min2(k * L, D))
                /\ result[k].wpm.per = Exact(Min2(k * L, D) - (k - 1) * L)
            /\ (D = 2100 /\ L = 600) =>
                    /\ Len(result) = 4
                    /\ result[4].start_sec = Exact(1800)
                    /\ result[4].end_sec = Exact(2100)
                    /\ result[4].wpm.per = Exact(300)

\* the exact rate of the call: words * 1200 compared with bound * ticks
ExactWpmSign(bound) ==
    Sign(Len(args.words) * TicksPerMinute - bound * args.duration_sec)

\* C18: for a non-empty word list and a duration > 0, with
\* wpm = words / (duration / 60), compute_pace_metric returns too_slow with
\* score 40 iff wpm < 110, optimal with score 90 iff 110 <= wpm <= 170, and
\* too_fast with score 50 iff wpm > 170.
C18_PaceLabel ==
    (pc = "paced" /\ args.words # <<>> /\ args.duration_sec > 0) =>
        /\ (result.label = "too_slow" /\ result.score_0_100 = <<40>>)
                <=> ExactWpmSign(SlowBelowWpm) < 0
        /\ (result.label = "optimal" /\ result.score_0_100 = <<90>>)
                <=> (ExactWpmSign(SlowBelowWpm) >= 0 /\ ExactWpmSign(FastAboveWpm) <= 0)
        /\ (result.label = "too_fast" /\ result.score_0_100 = <<50>>)
                <=> ExactWpmSign(FastAboveWpm) > 0

---------------------------------------------------------------------------
(* metrics/fillers.py *)

FILLER_TOKENS ==
    {"um", "uh", "erm", "er", "uhm", "like", "actually", "basically", "youknow"}

\* the "text" of a word whose text is not a string
NoText == "<not a string>"

\* _normalize_token on the texts of the model: lower case, punctuation
\* removed, "you know" joined
normalize_token(text) ==
    CASE text = "Um," -> "um"
      [] text = "um" -> "um"
      [] text = "Like" -> "like"
      [] text = "you know" -> "youknow"
      [] text = "So," -> "so"
      [] text = "Hello." -> "hello"
      [] OTHER -> text

IsFiller(w) == w.text # NoText /\ normalize_token(w.text) \in FILLER_TOKENS

\* the starts of the filler words, in word order
RECURSIVE FillerTimes(_)
FillerTimes(words) ==
    IF words = <<>> THEN <<>>
    ELSE (IF IsFiller(Head(words)) THEN <<Head(words).start>> ELSE <<>>)
            \o FillerTimes(Tail(words))

FillersInWindow(filler_times, current_start, window_end) ==
    Cardinality({i \in 1..Len(filler_times) :
                    current_start <= filler_times[i] /\ filler_times[i] < window_end})

\* a rate per minute, kept as "events per duration"
Rate(events, per) == [events |-> events, per |-> per]

\* rate >= per_min (rate's duration > 0)
RateAtLeast(rate, per_min) == rate.events * TicksPerMinute >= per_min * rate.per
RateAtMost(rate, per_min) == rate.events * TicksPerMinute <= per_min * rate.per

\* max of two rates over windows of one width
MaxRate(r1, r2) == IF r2.events > r1.events THEN r2 ELSE r1

\* the while loop of _detect_filler_spikes; window_sec is a multiple of 4 ticks
RECURSIVE SpikeLoop(_, _, _, _, _, _)
SpikeLoop(filler_times, window_sec, spike_threshold_per_min, last_word_end, current_start, spikes) ==
    LET step_sec == window_sec \div 4
        window_end == current_start + window_sec
        filler_rate ==
            Rate(FillersInWindow(filler_times, current_start, window_end), window_sec)
        last == spikes[Len(spikes)]
        extended ==
            IF spikes # <<>> /\ Abs(last.end_sec - current_start) < step_sec
            THEN [spikes EXCEPT ![Len(spikes)] =
                    [last EXCEPT !.end_sec = window_end,
                                 !.filler_rate = MaxRate(last.filler_rate, filler_rate)]]
            ELSE Append(spikes, [start_sec |-> current_start, end_sec |-> window_end,
                                 filler_rate |-> filler_rate])
    IN  IF current_start + window_sec > last_word_end THEN spikes
        ELSE SpikeLoop(filler_times, window_sec, spike_threshold_per_min, last_word_end,
                       current_start + step_sec,
                       IF RateAtLeast(filler_rate, spike_threshold_per_min)
                       THEN extended ELSE spikes)

detect_filler_spikes_between_fillers(words, window_sec, spike_threshold_per_min) ==
    LET filler_times == FillerTimes(words)
        times == {filler_times[i] : i \in 1..Len(filler_times)}
    IN  IF filler_times = <<>> THEN <<>>
        ELSE SpikeLoop(filler_times, window_sec, spike_threshold_per_min,
                       SetMax(times) + window_sec, SetMin(times), <<>>)

detect_filler_spikes(words, window_sec, spike_threshold_per_min) ==
    IF words = <<>> THEN <<>>
    ELSE LET first_word_start == SetMin({words[i].start : i \in 1..Len(words)})
             last_word_end == SetMax({words[i].end : i \in 1..Len(words)})
             filler_times == FillerTimes(words)
         IN  IF last_word_end - first_word_start <= 0 THEN <<>>
             ELSE IF filler_times = <<>> THEN <<>>
             ELSE SpikeLoop(filler_times, window_sec, spike_threshold_per_min,
                            last_word_end, first_word_start, <<>>)

\* the defaults of _detect_filler_spikes: 30.0 s, 10 per minute
DefaultSpikeWindow == 600
DefaultSpikeThreshold == 10

\* Counter of the normalised filler tokens
FillerCounter(words) ==
    [tok \in {normalize_token(words[i].text) : i \in {j \in 1..Len(words) : IsFiller(words[j])}}
        |-> Cardinality({i \in 1..Len(words) :
                            IsFiller(words[i]) /\ normalize_token(words[i].text) = tok})]

RECURSIVE SpikeFeedback(_)
SpikeFeedback(filler_spikes) ==
    IF filler_spikes = <<>> THEN <<>>
    ELSE <<[start_sec |-> Head(filler_spikes).start_sec,
            end_sec |-> Head(filler_spikes).end_sec,
            tip_type |-> "fillers", about |-> "spike"]>>
         \o SpikeFeedback(Tail(filler_spikes))

compute_fillers_metric(words, duration_sec_) ==
    IF duration_sec_ <= 0 \/ words = <<>> THEN Abstained("no_words_or_invalid_duration")
    ELSE LET total_tokens == Cardinality({i \in 1..Len(words) : words[i].text # NoText})
             total_fillers == Len(FillerTimes(words))
             filler_rate_per_min == Rate(total_fillers, duration_sec_)
             filler_spikes ==
                detect_filler_spikes(words, DefaultSpikeWindow, DefaultSpikeThreshold)
             label ==
                IF total_fillers = 0 THEN "low_filler_rate"
                ELSE IF RateAtMost(filler_rate_per_min, 3) THEN "low_filler_rate"
                ELSE IF RateAtMost(filler_rate_per_min, 7) THEN "moderate_filler_rate"
                ELSE "high_filler_rate"
             score ==
                IF total_fillers = 0 THEN 95
                ELSE IF RateAtMost(filler_rate_per_min, 3) THEN 85
                ELSE IF RateAtMost(filler_rate_per_min, 7) THEN 65
                ELSE 45
         IN  IF total_tokens = 0 THEN Abstained("no_tokens")
             ELSE [score_0_100 |-> <<score>>,
                   label |-> label,
                   confidence |-> Hundredths(75),
                   abstained |-> FALSE,
                   details |-> [filler_rate_per_min |-> filler_rate_per_min,
                                fillers_per_100_words |-> Rate(100 * total_fillers, total_tokens),
                                total_fillers |-> total_fillers,
                                top_fillers |-> FillerCounter(words),
                                filler_spikes |-> filler_spikes],
                   feedback |-> <<[start_sec |-> 0, end_sec |-> duration_sec_,
                                   tip_type |-> "fillers", about |-> label]>>
                                \o SpikeFeedback(filler_spikes)]

---------------------------------------------------------------------------
(* SpecFillers: _detect_filler_spikes and compute_fillers_metric applied to  *)
(* a word list                                                               *)

\* word texts and starts (multiples of 0.5 s); every word lasts 0.5 s
SpikeTexts == {"um", "Like", "So,"}
SpikeStarts == {0, 20, 40, 80, 100}
SpikeWords == {Word(tx, s, s + 10) : tx \in SpikeTexts, s \in SpikeStarts}

\* the word that ends a 10 s talk
LastWord == Word("thanks", 190, 200)

\* (window_sec, spike_threshold_per_min): 4 s windows stepped by 1 s, in which
\* one filler is 15 per minute; 8 s windows stepped by 2 s
SpikeChoices == {<<80, 15>>, <<80, 30>>, <<160, 15>>}

SpikeArgs(words, w, th, d) ==
    [words |-> words, window_sec |-> w, spike_threshold_per_min |-> th,
     duration_sec |-> d]

InitFillers ==
    /\ pc = "start"
    /\ \E n \in 0..MaxWords : \E ws \in [1..n -> SpikeWords] :
        \E tail \in {<<>>, <<LastWord>>, <<Word(NoText, 190, 200)>>} :
            \E c \in SpikeChoices : \E d \in {0, 200} :
                args = SpikeArgs(ws \o tail, c[1], c[2], d)
    /\ result = NotCalled
    /\ pauses = <<>> /\ merged = NotCalled /\ remerged = NotCalled
    /\ word_pauses = <<>> /\ vad_silences = <<>>
    /\ duration_sec = 0 /\ boundary_margin = 0 /\ combined = NotCalled
    /\ metrics = <<>> /\ overall = NotCalled
    /\ PipelineIdle /\ JobsIdle

DetectFillerSpikes ==
    /\ pc = "start"
    /\ result' = detect_filler_spikes(args.words, args.window_sec,
                                      args.spike_threshold_per_min)
    /\ pc' = "spiked"
    /\ UNCHANGED args
    /\ UNCHANGED mergeVars /\ UNCHANGED combineVars /\ UNCHANGED scoreVars
    /\ UNCHANGED pipelineVars /\ UNCHANGED jobVars

ComputeFillersMetric ==
    /\ pc = "start"
    /\ result' = compute_fillers_metric(args.words, args.duration_sec)
    /\ pc' = "fillers"
    /\ UNCHANGED args
    /\ UNCHANGED mergeVars /\ UNCHANGED combineVars /\ UNCHANGED scoreVars
    /\ UNCHANGED pipelineVars /\ UNCHANGED jobVars

NextFillers == DetectFillerSpikes \/ ComputeFillersMetric

SpecFillers == InitFillers /\ [][NextFillers]_vars

---------------------------------------------------------------------------
(* Filler claims *)

\* the window positions _detect_filler_spikes evaluates for the call
SpikePositions ==
    LET first == SetMin({args.words[i].start : i \in 1..Len(args.words)})
        last == SetMax({args.words[i].end : i \in 1..Len(args.words)})
        step == args.window_sec \div 4
    IN  {first + k * step : k \in {j \in 0..((last - first) \div step) :
                                        first + j * step + args.window_sec <= last}}

\* the window at position p is a spike
IsSpikeWindow(p) ==
    Cardinality({i \in 1..Len(args.words) :
                    /\ IsFiller(args.words[i])
                    /\ p <= args.words[i].start
                    /\ args.words[i].start < p + args.window_sec}) * TicksPerMinute
        >= args.spike_threshold_per_min * args.window_sec

\* C16: spike windows whose gap to the previous spike's end is less than the
\* step are merged into one interval that spans them; in particular two
\* consecutive window positions that are both spikes lie in a single reported
\* spike interval, and no two reported spikes overlap or are closer than the
\* step.
C16_SpikeMerge ==
    (pc = "spiked" /\ args.words # <<>>) =>
        LET step == args.window_sec \div 4
        IN  /\ \A p \in SpikePositions :
                (p + step \in SpikePositions /\ IsSpikeWindow(p) /\ IsSpikeWindow(p + step)) =>
                    \E i \in 1..Len(result) :
                        /\ result[i].start_sec <= p
                        /\ result[i].end_sec >= p + step + args.window_sec
            /\ \A i \in 1..(Len(result) - 1) :
                    result[i + 1].start_sec - result[i].end_sec >= step

---------------------------------------------------------------------------
(* metrics/pause_quality.py : _classify_pause_context *)

\* text.strip().endswith('.' / '!' / '?') and text.strip().endswith(','), on
\* the texts of the model
EndsSentence(text) == text \in {"Hello.", "Done!", "Why?"}
EndsComma(text) == text \in {"So,", "Um,"}

\* some SIGNPOST_REGEX pattern is found in (context_before + " " +
\* context_after).lower(): a one-word signpost in either text, or a two-word
\* signpost made of the two texts
SignpostFound(context_before, context_after) ==
    \/ context_before \in {"first", "however", "then"}
    \/ context_after \in {"first", "however", "then"}
    \/ <<context_before, context_after>> \in {<<"in", "summary">>, <<"for", "example">>}

\* index of the word that ends last at or before the pause starts (the first
\* such word of the list), 0 for None
WordBefore(pause, words) ==
    LET ending == {i \in 1..Len(words) : words[i].end <= pause.start}
        latest == {i \in ending : \A j \in ending : words[j].end <= words[i].end}
    IN  IF ending = {} THEN 0 ELSE SetMin(latest)

\* index of the word that starts first at or after the pause ends (the first
\* such word of the list), 0 for None
WordAfter(pause, words) ==
    LET starting == {i \in 1..Len(words) : words[i].start >= pause.end}
        soonest == {i \in starting : \A j \in starting : words[i].start <= words[j].start}
    IN  IF starting = {} THEN 0 ELSE SetMin(soonest)

classify_pause_context_context_first(pause, words) ==
    LET word_before == WordBefore(pause, words)
        word_after == WordAfter(pause, words)
        context_before == IF word_before = 0 THEN "" ELSE words[word_before].text
        context_after == IF word_after = 0 THEN "" ELSE words[word_after].text
        pause_duration == pause.duration
    IN  IF context_before # "" /\ EndsSentence(context_before) THEN "helpful"
        ELSE IF SignpostFound(context_before, context_after) THEN "helpful"
        ELSE IF context_before # "" /\ EndsComma(context_before)
                /\ 6 <= pause_duration /\ pause_duration <= 24 THEN "helpful"
        ELSE IF pause_duration < 4 THEN "awkward"
        ELSE IF 8 <= pause_duration /\ pause_duration <= 30 THEN "helpful"
        ELSE IF pause_duration > 40 THEN "awkward"
        ELSE IF pause_duration < 8 THEN "awkward"
        ELSE "helpful"

\* durations in ticks: 0.2 s = 4, 0.3 s = 6, 0.4 s = 8, 1.2 s = 24,
\* 1.5 s = 30, 2.0 s = 40
classify_pause_context(pause, words) ==
    LET word_before == WordBefore(pause, words)
        word_after == WordAfter(pause, words)
        context_before == IF word_before = 0 THEN "" ELSE words[word_before].text
        context_after == IF word_after = 0 THEN "" ELSE words[word_after].text
        pause_duration == pause.duration
    IN  IF pause_duration < 4 THEN "awkward"
        ELSE IF context_before # "" /\ EndsSentence(context_before) THEN "helpful"
        ELSE IF SignpostFound(context_before, context_after) THEN "helpful"
        ELSE IF context_before # "" /\ EndsComma(context_before)
                /\ 6 <= pause_duration /\ pause_duration <= 24 THEN "helpful"
        ELSE IF 8 <= pause_duration /\ pause_duration <= 30 THEN "helpful"
        ELSE IF pause_duration > 40 THEN "awkward"
        ELSE IF pause_duration < 8 THEN "awkward"
        ELSE "helpful"

---------------------------------------------------------------------------
(* SpecContext: _classify_pause_context applied to a pause and a word list *)

\* pause durations from 0.1 s to 2.05 s, on and around the thresholds
ContextDurations == {2, 4, 5, 6, 8, 24, 25, 30, 31, 40, 41}

\* the pause starts at 5.0 s
ContextPauseStart == 100

ContextTexts == {"Hello.", "So,", "first", "in", "summary", "word"}

\* a word ending 0.5 s before the pause, one ending where the pause starts, one
\* starting 0.45 s after the longest pause
ContextSlots == {<<80, 90>>, <<95, 100>>, <<150, 160>>}

ContextWords == {Word(tx, sl[1], sl[2]) : tx \in ContextTexts, sl \in ContextSlots}

InitContext ==
    /\ pc = "start"
    /\ \E d \in ContextDurations : \E n \in 0..MaxWords :
        \E ws \in [1..n -> ContextWords] :
            args = [pause |-> Pause(ContextPauseStart, ContextPauseStart + d, "asr"),
                    words |-> ws]
    /\ result = NotCalled
    /\ pauses = <<>> /\ merged = NotCalled /\ remerged = NotCalled
    /\ word_pauses = <<>> /\ vad_silences = <<>>
    /\ duration_sec = 0 /\ boundary_margin = 0 /\ combined = NotCalled
    /\ metrics = <<>> /\ overall = NotCalled
    /\ PipelineIdle /\ JobsIdle

ClassifyPauseContext ==
    /\ pc = "start"
    /\ result' = classify_pause_context(args.pause, args.words)
    /\ pc' = "classified"
    /\ UNCHANGED args
    /\ UNCHANGED mergeVars /\ UNCHANGED combineVars /\ UNCHANGED scoreVars
    /\ UNCHANGED pipelineVars /\ UNCHANGED jobVars

NextContext == ClassifyPauseContext

SpecContext == InitContext /\ [][NextContext]_vars

---------------------------------------------------------------------------
(* Pause context claims *)

\* the texts of the nearest token that ends at or before the pause and of the
\* nearest token that starts at or after it ("" when there is none); among
\* tokens equally near, the first of the list
PrecedingText ==
    LET P == {i \in 1..Len(args.words) : args.words[i].end <= args.pause.start}
    IN  IF P = {} THEN ""
        ELSE args.words[CHOOSE i \in P : \A j \in P :
                            \/ args.words[j].end < args.words[i].end
                            \/ (args.words[j].end = args.words[i].end /\ i <= j)].text

FollowingText ==
    LET F == {i \in 1..Len(args.words) : args.words[i].start >= args.pause.end}
    IN  IF F = {} THEN ""
        ELSE args.words[CHOOSE i \in F : \A j \in F :
                            \/ args.words[j].start > args.words[i].start
                            \/ (args.words[j].start = args.words[i].start /\ i <= j)].text

\* the pause has contextual support
ContextSupport ==
    \/ PrecedingText \in {"Hello.", "Done!", "Why?"}
    \/ PrecedingText \in {"first", "however", "then"}
    \/ FollowingText \in {"first", "however", "then"}
    \/ (PrecedingText = "in" /\ FollowingText = "summary")
    \/ (PrecedingText = "for" /\ FollowingText = "example")
    \/ (PrecedingText \in {"So,", "Um,"}
            /\ args.pause.duration >= 6 /\ args.pause.duration <= 24)

\* C17 as stated: a pause with contextual support (sentence end before it, a
\* signpost around it, or a comma before it and a duration in [0.3, 1.2] s)
\* is helpful; otherwise it is helpful if its duration is in [0.4, 1.5] s and
\* awkward if its duration is < 0.2 s, > 2.0 s or in [0.2, 0.4) s.
C17_ContextFirst ==
    pc = "classified" =>
        LET d == args.pause.duration
        IN  /\ ContextSupport => result = "helpful"
            /\ (~ContextSupport /\ d >= 8 /\ d <= 30) => result = "helpful"
            /\ (~ContextSupport /\ (d < 4 \/ d > 40 \/ (d >= 4 /\ d < 8)))
                    => result = "awkward"

\* C17 as amended: a pause shorter than 0.2 s is awkward whatever its context;
\* a pause of at least 0.2 s is helpful if it has contextual support,
\* otherwise helpful if its duration is in [0.4, 1.5] s and awkward if its
\* duration is > 2.0 s or in [0.2, 0.4) s.
C17_ShortPauseAwkward ==
    pc = "classified" =>
        LET d == args.pause.duration
        IN  /\ d < 4 => result = "awkward"
            /\ (d >= 4 /\ ContextSupport) => result = "helpful"
            /\ (~ContextSupport /\ d >= 8 /\ d <= 30) => result = "helpful"
            /\ (~ContextSupport /\ (d > 40 \/ (d >= 4 /\ d < 8))) => result = "awkward"
            /\ result \in {"helpful", "awkward"}

\* a 0.1 s pause right after a sentence end is awkward, and so the context
\* rules have been passed over
C17_Witness ==
    /\ pc = "classified"
    /\ args.pause.duration = 2
    /\ PrecedingText = "Hello."
    /\ result = "awkward"

---------------------------------------------------------------------------
(* metrics/intonation.py *)

(* An Optional[float] is None or a one-element tuple holding the value.  Pitch
   standard deviation and pitch range count 1/31 Hz (12 Hz = 372), the
   coefficient of variation counts thousandths and the energy standard
   deviation counts 0.0001, so that the confidence of the metric, which counts
   1/3100, is a whole number on the features of the model. *)
Some(x) == <<x>>

\* a threshold in Hz, in 1/31 Hz
Hz(h) == 31 * h

estimate_pitch_range(mean_pitch_hz, pitch_std_hz) ==
    IF mean_pitch_hz = None \/ pitch_std_hz = None THEN None
    ELSE Some(4 * pitch_std_hz[1])

compute_pitch_cov(mean_pitch_hz, pitch_std_hz) ==
    IF mean_pitch_hz = None \/ pitch_std_hz = None THEN None
    ELSE IF mean_pitch_hz[1] <= 0 THEN None
    ELSE Some((1000 * pitch_std_hz[1]) \div mean_pitch_hz[1])

\* the component score of one factor: 0 below lo, 1 below hi, 2 from hi on;
\* 0 for a factor that is None
ComponentScore(x, lo, hi) ==
    IF x = None THEN 0
    ELSE IF x[1] < lo THEN 0
    ELSE IF x[1] < hi THEN 1
    ELSE 2

\* total_score in hundredths
TotalScore(pitch_std_hz, pitch_range_hz, pitch_cov, energy_std) ==
    35 * ComponentScore(pitch_std_hz, Hz(12), Hz(25))
    + 25 * ComponentScore(pitch_range_hz, Hz(50), Hz(100))
    + 25 * ComponentScore(pitch_cov, 100, 200)
    + 15 * ComponentScore(energy_std, 50, 200)

label_from_prosody_factors_inclusive(pitch_std_hz, pitch_range_hz, pitch_cov, energy_std) ==
    IF pitch_std_hz = None THEN "monotone"
    ELSE LET total_score == TotalScore(pitch_std_hz, pitch_range_hz, pitch_cov, energy_std)
         IN  IF total_score <= 70 THEN "monotone"
             ELSE IF total_score <= 140 THEN "somewhat_monotone"
             ELSE "dynamic"

label_from_prosody_factors(pitch_std_hz, pitch_range_hz, pitch_cov, energy_std) ==
    IF pitch_std_hz = None THEN "monotone"
    ELSE LET total_score == TotalScore(pitch_std_hz, pitch_range_hz, pitch_cov, energy_std)
         IN  IF total_score < 70 THEN "monotone"
             ELSE IF total_score < 140 THEN "somewhat_monotone"
             ELSE "dynamic"

intonation_score_from_label(label) ==
    CASE label = "monotone" -> 45
      [] label = "somewhat_monotone" -> 65
      [] label = "dynamic" -> 85
      [] OTHER -> 0

\* 930 * prosody_variance_score: 0.3 * 0.5 * (norm(pitch_std_hz, 5, 50) +
\* norm(energy_std, 0.001, 0.05)) in 1/3100
ProsodyConfidence(pitch_std_hz, energy_std) ==
    LET Clip(x, lo, hi) == Max2(lo, Min2(hi, x))
        pitch_part == IF pitch_std_hz = None THEN 0
                      ELSE (Clip(pitch_std_hz[1], Hz(5), Hz(50)) - Hz(5)) \div 3
        energy_part == IF energy_std = None THEN 0
                       ELSE (93 * (Clip(energy_std[1], 10, 500) - 10)) \div 98
    IN  pitch_part + energy_part

\* exact_range is compute_exact_pitch_range(raw_pitch_hz)
compute_intonation_metric(audio_features, duration_sec_, exact_range) ==
    IF duration_sec_ <= 60 THEN Abstained("talk_too_short_for_intonation")
    ELSE IF audio_features.pitch_std_hz = None THEN Abstained("no_pitch_data")
    ELSE
        LET mean_pitch_hz == audio_features.mean_pitch_hz
            pitch_std_hz == audio_features.pitch_std_hz
            energy_std == audio_features.energy_std
            pitch_range_hz == IF exact_range # None THEN exact_range
                              ELSE estimate_pitch_range(mean_pitch_hz, pitch_std_hz)
            pitch_cov == compute_pitch_cov(mean_pitch_hz, pitch_std_hz)
            label == label_from_prosody_factors(pitch_std_hz, pitch_range_hz,
                                                pitch_cov, energy_std)
            base == Hundredths(60) + ProsodyConfidence(pitch_std_hz, energy_std)
            confidence == IF pitch_range_hz # None /\ pitch_cov # None
                          THEN Min2(Hundredths(95), base + Hundredths(5))
                          ELSE base
        IN  [score_0_100 |-> Some(intonation_score_from_label(label)),
             label |-> label,
             confidence |-> confidence,
             abstained |-> FALSE,
             details |-> [pitch_range_hz |-> pitch_range_hz,
                          pitch_cov |-> pitch_cov,
                          exact_range |-> exact_range # None],
             feedback |-> <<[start_sec |-> 0, end_sec |-> duration_sec_,
                             tip_type |-> "intonation"]>>]

---------------------------------------------------------------------------
(* SpecIntonation: label_from_prosody_factors and compute_intonation_metric
   applied to factors on and around their thresholds *)

PitchStdChoices == {None, Some(Hz(12) - 1), Some(Hz(12)), Some(410),
                    Some(Hz(25) - 1), Some(Hz(25))}
PitchRangeChoices == {None, Some(Hz(50) - 1), Some(Hz(50)), Some(Hz(100) - 1), Some(Hz(100))}
PitchCovChoices == {None, Some(99), Some(100), Some(199), Some(200)}
EnergyStdChoices == {None, Some(49), Some(50), Some(199), Some(200)}

\* energy deviations and pitch deviations on which the confidence is a whole
\* number of 1/3100
AudioFeatureChoices ==
    [mean_pitch_hz : {None, Some(0), Some(Hz(100)), Some(Hz(200))},
     pitch_std_hz : {None, Some(Hz(5)), Some(410), Some(Hz(20)), Some(Hz(50))},
     energy_std : {None, Some(10), Some(108), Some(500)}]

\* 3.0 s, 3.05 s and 60 s
IntonationDurations == {60, 61, 1200}

InitIntonation ==
    /\ pc = "start"
    /\ \/ \E sd \in PitchStdChoices, rg \in PitchRangeChoices,
             cv \in PitchCovChoices, en \in EnergyStdChoices :
            args = [pitch_std_hz |-> sd, pitch_range_hz |-> rg,
                    pitch_cov |-> cv, energy_std |-> en]
       \/ \E af \in AudioFeatureChoices, d \in IntonationDurations,
             xr \in {None, Some(Hz(120))} :
            args = [audio_features |-> af, duration_sec |-> d, exact_range |-> xr]
    /\ result = NotCalled
    /\ pauses = <<>> /\ merged = NotCalled /\ remerged = NotCalled
    /\ word_pauses = <<>> /\ vad_silences = <<>>
    /\ duration_sec = 0 /\ boundary_margin = 0 /\ combined = NotCalled
    /\ metrics = <<>> /\ overall = NotCalled
    /\ PipelineIdle /\ JobsIdle

LabelFromProsodyFactors ==
    /\ pc = "start"
    /\ "pitch_cov" \in DOMAIN args
    /\ result' = label_from_prosody_factors(args.pitch_std_hz, args.pitch_range_hz,
                                            args.pitch_cov, args.energy_std)
    /\ pc' = "labelled"
    /\ UNCHANGED args
    /\ UNCHANGED mergeVars /\ UNCHANGED combineVars /\ UNCHANGED scoreVars
    /\ UNCHANGED pipelineVars /\ UNCHANGED jobVars

ComputeIntonationMetric ==
    /\ pc = "start"
    /\ "audio_features" \in DOMAIN args
    /\ result' = compute_intonation_metric(args.audio_features, args.duration_sec,
                                           args.exact_range)
    /\ pc' = "intoned"
    /\ UNCHANGED args
    /\ UNCHANGED mergeVars /\ UNCHANGED combineVars /\ UNCHANGED scoreVars
    /\ UNCHANGED pipelineVars /\ UNCHANGED jobVars

NextIntonation == LabelFromProsodyFactors \/ ComputeIntonationMetric

SpecIntonation == InitIntonation /\ [][NextIntonation]_vars

---------------------------------------------------------------------------
(* Intonation claims *)

\* the bucket of a factor against its two thresholds
Bucket(x, lo, hi) == IF x = None \/ x[1] < lo THEN 0 ELSE IF x[1] < hi THEN 1 ELSE 2

\* the buckets of pitch std, pitch range, coefficient of variation and energy
\* std of a call
Buckets(a) ==
    <<Bucket(a.pitch_std_hz, Hz(12), Hz(25)), Bucket(a.pitch_range_hz, Hz(50), Hz(100)),
      Bucket(a.pitch_cov, 100, 200), Bucket(a.energy_std, 50, 200)>>

\* the fixed weights, in hundredths
Weights == <<35, 25, 25, 15>>

WeightedBuckets(b) ==
    Weights[1] * b[1] + Weights[2] * b[2] + Weights[3] * b[3] + Weights[4] * b[4]

\* monotone < somewhat_monotone < dynamic
Dynamism(label) ==
    CASE label = "monotone" -> 0 [] label = "somewhat_monotone" -> 1 [] label = "dynamic" -> 2

\* the calls of the model that differ from a in one factor, whose bucket is
\* higher
RaisedCalls(a) ==
    {b \in [pitch_std_hz : PitchStdChoices \ {None}, pitch_range_hz : PitchRangeChoices,
            pitch_cov : PitchCovChoices, energy_std : EnergyStdChoices] :
        \E i \in 1..4 :
            /\ Buckets(b)[i] > Buckets(a)[i]
            /\ \A j \in (1..4) \ {i} : Buckets(b)[j] = Buckets(a)[j]}

\* C19: with pitch std present, the four buckets are in {0,1,2}, the weights
\* sum to 1.0, the label is monotone iff the weighted sum s < 0.7,
\* somewhat_monotone iff 0.7 <= s < 1.4 and dynamic iff s >= 1.4, and raising
\* one factor's bucket never moves the label towards monotone.
C19_IntonationLabel ==
    (pc = "labelled" /\ args.pitch_std_hz # None) =>
        LET s == WeightedBuckets(Buckets(args))
        IN  /\ \A i \in 1..4 : Buckets(args)[i] \in {0, 1, 2}
            /\ Weights[1] + Weights[2] + Weights[3] + Weights[4] = 100
            /\ result \in {"monotone", "somewhat_monotone", "dynamic"}
            /\ result = "monotone" <=> s < 70
            /\ result = "somewhat_monotone" <=> (s >= 70 /\ s < 140)
            /\ result = "dynamic" <=> s >= 140
            /\ \A b \in RaisedCalls(args) :
                    Dynamism(label_from_prosody_factors(b.pitch_std_hz, b.pitch_range_hz,
                                                        b.pitch_cov, b.energy_std))
                        >= Dynamism(result)

\* a weighted sum of exactly 0.7 (pitch std in the top bucket, the rest in the
\* bottom one) is labelled somewhat_monotone
C19_Witness ==
    /\ pc = "labelled"
    /\ args.pitch_std_hz # None
    /\ WeightedBuckets(Buckets(args)) = 70
    /\ result = "somewhat_monotone"

---------------------------------------------------------------------------
(* metrics/pause_quality.py : compute_pause_quality_metric *)

\* 0.2 s = 4 ticks, 0.5 s = 10, 1.0 s = 20
classify_pause(duration) ==
    IF duration < 4 THEN "very_short"
    ELSE IF duration < 10 THEN "short"
    ELSE IF duration < 20 THEN "medium"
    ELSE "long"

\* the fallback without words: helpful iff 0.3 s <= duration <= 1.5 s
ClassifyByDuration(p) ==
    IF 6 <= p.duration /\ p.duration <= 30 THEN "helpful" ELSE "awkward"

\* _abstained(reason): the abstained metric and an empty timeline
PauseAbstained(reason) == <<Abstained(reason), <<>>>>

\* the entries about single awkward pauses: shorter than 0.2 s or longer than
\* 2.5 s
RECURSIVE AwkwardFeedback(_, _)
AwkwardFeedback(ps, classes) ==
    IF ps = <<>> THEN <<>>
    ELSE (IF classes[1] = "awkward" /\ (Head(ps).duration < 4 \/ Head(ps).duration > 50)
          THEN <<[start_sec |-> Head(ps).start, end_sec |-> Head(ps).end,
                  tip_type |-> "pause_quality", about |-> "awkward_pause"]>>
          ELSE <<>>)
         \o AwkwardFeedback(Tail(ps), Tail(classes))

\* the function from the call of combine_pauses on: the pair (metric,
\* timeline); pause_rate counts pauses per second, so that pause_rate > 0.30
\* is 2000 * pauses > 30 * ticks
PauseQualityOfCombined(word_pauses_, vad_silence_segments, duration_sec_, words) ==
        LET combined_ == combine_pauses(word_pauses_, vad_silence_segments, duration_sec_,
                                        DefaultBoundaryMargin)
            total_pauses == Len(combined_)
            pause_classifications ==
                [i \in 1..total_pauses |->
                    IF words # <<>> THEN classify_pause_context(combined_[i], words)
                    ELSE ClassifyByDuration(combined_[i])]
            helpful_count ==
                Cardinality({i \in 1..total_pauses : pause_classifications[i] = "helpful"})
            awkward_count == total_pauses - helpful_count
            label == IF 2000 * total_pauses > 30 * duration_sec_ THEN "too_many_pauses"
                     ELSE IF 2000 * total_pauses < 5 * duration_sec_ THEN "too_few_pauses"
                     ELSE "good"
            score == CASE label = "too_many_pauses" -> 45
                       [] label = "too_few_pauses" -> 55
                       [] OTHER -> 85
            timeline_ ==
                [i \in 1..total_pauses |->
                    [start_sec |-> combined_[i].start,
                     end_sec |-> combined_[i].end,
                     type |-> "pause",
                     quality |-> classify_pause(combined_[i].duration),
                     source |-> combined_[i].source,
                     context |-> pause_classifications[i]]]
            ratio_feedback ==
                IF 2 * awkward_count > total_pauses
                THEN <<[start_sec |-> 0, end_sec |-> duration_sec_,
                        tip_type |-> "pause_quality", about |-> "awkward_ratio"]>>
                ELSE IF 10 * helpful_count > 7 * total_pauses
                THEN <<[start_sec |-> 0, end_sec |-> duration_sec_,
                        tip_type |-> "pause_quality", about |-> "helpful_ratio"]>>
                ELSE <<>>
        IN  IF combined_ = <<>> THEN PauseAbstained("no_pauses_detected")
            ELSE <<[score_0_100 |-> <<score>>,
                    label |-> label,
                    confidence |-> Hundredths(75),
                    abstained |-> FALSE,
                    details |->
                        [total_pauses |-> total_pauses,
                         long_pauses |->
                            Cardinality({i \in 1..total_pauses : combined_[i].duration > 20}),
                         short_pauses |->
                            Cardinality({i \in 1..total_pauses : combined_[i].duration < 4}),
                         helpful_count |-> helpful_count,
                         awkward_count |-> awkward_count],
                    feedback |->
                        <<[start_sec |-> 0, end_sec |-> duration_sec_,
                           tip_type |-> "pause_quality", about |-> label]>>
                        \o ratio_feedback
                        \o (IF words # <<>>
                            THEN AwkwardFeedback(combined_, pause_classifications)
                            ELSE <<>>)],
                  timeline_>>

compute_pause_quality_metric_no_duration_check(word_pauses_, vad_silence_segments, duration_sec_, words) ==
    PauseQualityOfCombined(word_pauses_, vad_silence_segments, duration_sec_, words)

compute_pause_quality_metric(word_pauses_, vad_silence_segments, duration_sec_, words) ==
    IF duration_sec_ <= 0 THEN PauseAbstained("invalid_duration")
    ELSE PauseQualityOfCombined(word_pauses_, vad_silence_segments, duration_sec_, words)

---------------------------------------------------------------------------
(* metrics/content_structure.py *)

(* spaCy's sentence splitting is not modelled: a transcript is None when it is
   empty or blank, and otherwise the statistics _sentence_stats and
   _detect_signposts return for it. *)
Transcript(num_sentences, signpost_count, long_sentence_count) ==
    [num_sentences |-> num_sentences, signpost_count |-> signpost_count,
     long_sentence_count |-> long_sentence_count]

\* the pair (label, score); long_ratio > 0.4 is 10 * long > 4 * sentences
label_and_score(num_sentences, signpost_count, long_sentence_count) ==
    LET low_signposts == signpost_count = 0
        many_long == 10 * long_sentence_count > 4 * Max2(1, num_sentences)
    IN  IF num_sentences <= 0 THEN <<"abstained", 0>>
        ELSE IF low_signposts /\ many_long THEN <<"unclear_structure", 45>>
        ELSE IF low_signposts THEN <<"mixed_structure", 60>>
        ELSE IF many_long THEN <<"mostly_clear_structure", 75>>
        ELSE <<"very_clear_structure", 90>>

\* the function from nlp(transcript_text) on
ContentStructureOfDoc(transcript_text) ==
         LET ls == label_and_score(transcript_text.num_sentences,
                                   transcript_text.signpost_count,
                                   transcript_text.long_sentence_count)
         IN  IF ls[1] = "abstained" THEN Abstained("no_sentences")
             ELSE [score_0_100 |-> <<ls[2]>>,
                   label |-> ls[1],
                   confidence |-> Hundredths(75),
                   abstained |-> FALSE,
                   details |-> transcript_text,
                   feedback |-> <<[start_sec |-> 0, end_sec |-> 0,
                                   tip_type |-> "content_structure", about |-> ls[1]]>>]

compute_content_structure_metric_no_empty_check(transcript_text) ==
    ContentStructureOfDoc(IF transcript_text = None THEN Transcript(1, 0, 0)
                          ELSE transcript_text)

compute_content_structure_metric(transcript_text) ==
    IF transcript_text = None THEN Abstained("empty_transcript")
    ELSE ContentStructureOfDoc(transcript_text)

---------------------------------------------------------------------------
(* run_pipeline.py : _build_abstained_metric *)

build_abstained_metric(reason) == Abstained(reason)

---------------------------------------------------------------------------
(* SpecMetrics: each of the five metric functions, the pipeline's fallback and
   combine_pauses applied to its arguments *)

\* "Hello." ends 1.0 s in, "um" is said from 2.3 s to 2.8 s, "word" from 3.0 s
MetricWords == {Word("Hello.", 0, 20), Word("um", 46, 56), Word("word", 60, 80)}

MetricWordLists == UNION {[1..n -> MetricWords] : n \in 0..MaxWords}

\* a missing recording, an empty one, 3 s, 3.05 s, 10 s and 60 s
MetricDurations == {-20, 0, 60, 61, 200, 1200}

\* the gaps between the words, a 0.1 s gap inside "um", and a list out of order
WordPauseLists ==
    {<<>>, <<WordPause(20, 46)>>, <<WordPause(20, 46), WordPause(56, 60)>>,
     <<WordPause(50, 52)>>, <<WordPause(56, 60), WordPause(20, 46)>>}

\* a silence over the first gap, one of 3 s late in the recording, one at the
\* very start, one of exactly 1 s
SilenceLists ==
    {<<>>, <<Silence(18, 50)>>, <<Silence(100, 160)>>, <<Silence(0, 10), Silence(22, 44)>>,
     <<Silence(100, 120)>>}

TranscriptChoices ==
    {None, Transcript(0, 0, 0), Transcript(2, 0, 0), Transcript(2, 0, 1),
     Transcript(2, 1, 0), Transcript(2, 3, 2)}

ReasonChoices == {"metric_not_implemented_yet", "metric_computation_failed: boom"}

NoArgs ==
    [fn |-> "", words |-> <<>>, duration_sec |-> 0, word_pauses |-> <<>>,
     vad_silence_segments |-> <<>>, audio_features |-> <<>>, exact_range |-> None,
     transcript_text |-> None, reason |-> ""]

MetricArgs ==
    {[NoArgs EXCEPT !.fn = f, !.words = ws, !.duration_sec = d] :
        f \in {"compute_pace_metric", "compute_fillers_metric"},
        ws \in MetricWordLists, d \in MetricDurations}
    \cup
    {[NoArgs EXCEPT !.fn = f, !.word_pauses = wp, !.vad_silence_segments = vs,
                    !.duration_sec = d, !.words = ws] :
        f \in {"compute_pause_quality_metric", "combine_pauses"},
        wp \in WordPauseLists, vs \in SilenceLists, d \in MetricDurations,
        ws \in {<<>>} \cup [1..MaxWords -> MetricWords]}
    \cup
    {[NoArgs EXCEPT !.fn = "compute_intonation_metric", !.audio_features = af,
                    !.duration_sec = d, !.exact_range = xr] :
        af \in AudioFeatureChoices, d \in MetricDurations, xr \in {None, Some(Hz(120))}}
    \cup
    {[NoArgs EXCEPT !.fn = "compute_content_structure_metric", !.transcript_text = tx] :
        tx \in TranscriptChoices}
    \cup
    {[NoArgs EXCEPT !.fn = "_build_abstained_metric", !.reason = r] : r \in ReasonChoices}

InitMetrics ==
    /\ pc = "start"
    /\ args \in MetricArgs
    /\ result = NotCalled
    /\ pauses = <<>> /\ merged = NotCalled /\ remerged = NotCalled
    /\ word_pauses = <<>> /\ vad_silences = <<>>
    /\ duration_sec = 0 /\ boundary_margin = 0 /\ combined = NotCalled
    /\ metrics = <<>> /\ overall = NotCalled
    /\ PipelineIdle /\ JobsIdle

\* a metric function returns: result holds the metric and the timeline events
\* returned with it (none but for pause_quality)
Returns(fn, metric, events) ==
    /\ pc = "start"
    /\ args.fn = fn
    /\ result' = [metric |-> metric, timeline |-> events]
    /\ pc' = "computed"
    /\ UNCHANGED args
    /\ UNCHANGED mergeVars /\ UNCHANGED combineVars /\ UNCHANGED scoreVars
    /\ UNCHANGED pipelineVars /\ UNCHANGED jobVars

PaceMetric ==
    Returns("compute_pace_metric", compute_pace_metric(args.words, args.duration_sec), <<>>)

FillersMetric ==
    Returns("compute_fillers_metric",
            compute_fillers_metric(args.words, args.duration_sec), <<>>)

PauseQualityMetric ==
    LET returned == compute_pause_quality_metric(args.word_pauses,
                        args.vad_silence_segments, args.duration_sec, args.words)
    IN  Returns("compute_pause_quality_metric", returned[1], returned[2])

IntonationMetric ==
    Returns("compute_intonation_metric",
            compute_intonation_metric(args.audio_features, args.duration_sec,
                                      args.exact_range), <<>>)

ContentStructureMetric ==
    Returns("compute_content_structure_metric",
            compute_content_structure_metric(args.transcript_text), <<>>)

BuildAbstainedMetric ==
    Returns("_build_abstained_metric", build_abstained_metric(args.reason), <<>>)

\* combine_pauses called by itself: result holds the returned list
CombinePausesAlone ==
    /\ pc = "start"
    /\ args.fn = "combine_pauses"
    /\ result' = [returned |-> combine_pauses(args.word_pauses, args.vad_silence_segments,
                                              args.duration_sec, DefaultBoundaryMargin)]
    /\ pc' = "reconciled"
    /\ UNCHANGED args
    /\ UNCHANGED mergeVars /\ UNCHANGED combineVars /\ UNCHANGED scoreVars
    /\ UNCHANGED pipelineVars /\ UNCHANGED jobVars

NextMetrics ==
    \/ PaceMetric
    \/ FillersMetric
    \/ PauseQualityMetric
    \/ IntonationMetric
    \/ ContentStructureMetric
    \/ BuildAbstainedMetric
    \/ CombinePausesAlone

SpecMetrics == InitMetrics /\ [][NextMetrics]_vars

---------------------------------------------------------------------------
(* Metric result claims *)

\* C12: every result of the five metric functions and of the fallback has a
\* null score iff it is abstained; an abstained result has confidence 0.0 and
\* no feedback; a non-abstained one has an integer score in [0,100] and a
\* confidence in [0,1].
C12_ResultInvariants ==
    pc = "computed" =>
        LET m == result.metric
        IN  /\ m.score_0_100 = None <=> m.abstained
            /\ m.abstained => (m.confidence = 0 /\ m.feedback = <<>>)
            /\ ~m.abstained =>
                /\ Len(m.score_0_100) = 1
                /\ m.score_0_100[1] \in 0..100
                /\ m.confidence \in 0..Hundredths(100)

\* an intonation result whose confidence is at its cap of 0.95, and not
\* abstained
C12_Witness ==
    /\ pc = "computed"
    /\ args.fn = "compute_intonation_metric"
    /\ ~result.metric.abstained
    /\ result.metric.score_0_100[1] \in {45, 65, 85}
    /\ result.metric.confidence = Hundredths(95)

\* the result is an abstention: abstained, null score, confidence 0.0, no
\* feedback, and a reason in its details
IsAbstention(m) ==
    /\ m.abstained
    /\ m.score_0_100 = None
    /\ m.confidence = 0
    /\ m.feedback = <<>>
    /\ "reason" \in DOMAIN m.details
    /\ m.details.reason # ""

\* the input of the call is empty or invalid for the function called
EmptyOrInvalidInput ==
    \/ /\ args.fn \in {"compute_pace_metric", "compute_fillers_metric"}
       /\ (args.words = <<>> \/ args.duration_sec <= 0)
    \/ /\ args.fn = "compute_pause_quality_metric"
       /\ \/ args.duration_sec <= 0
          \/ combine_pauses(args.word_pauses, args.vad_silence_segments,
                            args.duration_sec, DefaultBoundaryMargin) = <<>>
    \/ /\ args.fn = "compute_intonation_metric"
       /\ (args.duration_sec <= 60 \/ args.audio_features.pitch_std_hz = None)
    \/ /\ args.fn = "compute_content_structure_metric"
       /\ args.transcript_text = None

\* C13: pace and fillers on an empty word list or a duration <= 0, pause
\* quality on a duration <= 0 or when no pause survives reconciliation,
\* intonation on a recording of at most 3 s or without pitch data, content
\* structure on an empty transcript: the result is an abstention with a
\* reason.
C13_AbstainOnInvalidInput ==
    (pc = "computed" /\ EmptyOrInvalidInput) => IsAbstention(result.metric)

\* content structure has abstained on an empty transcript
C13_Witness ==
    /\ pc = "computed"
    /\ args.fn = "compute_content_structure_metric"
    /\ args.transcript_text = None
    /\ result.metric.details.reason = "empty_transcript"

\* C20 as stated: given a duration <= 0, combine_pauses signals invalid input
\* instead of returning a pause list.
C20_ReconcilerSignals ==
    (pc = "reconciled" /\ args.duration_sec <= 0) => result.returned = Raised("invalid_input")

\* C20 as amended: given a duration <= 0, combine_pauses returns the
\* reconciled word pauses and no silence; compute_pause_quality_metric
\* abstains with reason invalid_duration and an empty timeline whatever the
\* candidates.
C20_CallerAbstains ==
    /\ (pc = "reconciled" /\ args.duration_sec <= 0) =>
            /\ result.returned =
                    merge_overlapping_pauses(
                        [i \in 1..Len(args.word_pauses) |->
                            Pause(args.word_pauses[i].start, args.word_pauses[i].end, "asr")])
            /\ \A i \in 1..Len(result.returned) : result.returned[i].source = "asr"
    /\ (pc = "computed" /\ args.fn = "compute_pause_quality_metric"
            /\ args.duration_sec <= 0) =>
            /\ IsAbstention(result.metric)
            /\ result.metric.details.reason = "invalid_duration"
            /\ result.timeline = <<>>

\* pause quality has abstained for a duration of 0 though word pauses and
\* silences were supplied
C20_Witness ==
    /\ pc = "computed"
    /\ args.fn = "compute_pause_quality_metric"
    /\ args.duration_sec <= 0
    /\ args.word_pauses # <<>>
    /\ args.vad_silence_segments # <<>>
    /\ result.metric.details.reason = "invalid_duration"
    /\ result.timeline = <<>>

---------------------------------------------------------------------------
(* run_pipeline.py : run_full_analysis *)

\* "if w.get('text')" for some word: full_text is not empty
HasText(words) == \E i \in 1..Len(words) : words[i].text # NoText

\* the argument of compute_content_structure_metric: None for an empty
\* full_text, else what spaCy finds in it
TranscriptText(aj) == IF HasText(aj.words) THEN aj.doc ELSE None

\* one branch of the if/elif chain of the loop: the pair (metric, timeline
\* events)
ComputeMetric(metric_name, aj) ==
    CASE metric_name = "pace" ->
            <<compute_pace_metric(aj.words, aj.duration_sec), <<>>>>
      [] metric_name = "pause_quality" ->
            compute_pause_quality_metric(aj.word_pauses, aj.vad_silence_segments,
                                         aj.duration_sec, aj.words)
      [] metric_name = "fillers" ->
            <<compute_fillers_metric(aj.words, aj.duration_sec), <<>>>>
      [] metric_name = "intonation" ->
            <<compute_intonation_metric(aj.audio_features, aj.duration_sec,
                                        aj.exact_range), <<>>>>
      [] metric_name = "content_structure" ->
            <<compute_content_structure_metric(TranscriptText(aj)), <<>>>>
      [] OTHER ->
            <<build_abstained_metric("metric_not_implemented_yet"), <<>>>>

\* str(e) of the exception a computation raises: spaCy without its model, a
\* pause without a start
ErrorOf(metric_name) ==
    IF metric_name = "content_structure" THEN "spaCy model 'en_core_web_sm' is not installed."
    ELSE "'start'"

\* the except branch: the metric abstains, the timeline is left alone
FailedMetric_drops_error(error) == build_abstained_metric("")

FailedMetric(error) == build_abstained_metric("metric_computation_failed: " \o error)

\* the dict with key k set to v
Put(dict, k, v) == [x \in DOMAIN dict \cup {k} |-> IF x = k THEN v ELSE dict[x]]

\* the loop over requested, from names on: the metrics dict and the timeline
RECURSIVE MetricLoop(_, _, _, _, _)
MetricLoop(aj, names, failing, ms, events) ==
    IF names = <<>> THEN [metrics |-> ms, timeline |-> events]
    ELSE LET metric_name == Head(names)
             computed == ComputeMetric(metric_name, aj)
         IN  IF metric_name \in failing
             THEN MetricLoop(aj, Tail(names), failing,
                             Put(ms, metric_name, FailedMetric(ErrorOf(metric_name))),
                             events)
             ELSE MetricLoop(aj, Tail(names), failing,
                             Put(ms, metric_name, computed[1]), events \o computed[2])

\* "job_input.requested_metrics or [...]"
RequestedOrDefault(names) == IF names = <<>> THEN MetricNameSeq ELSE names

\* the keys of the metrics dict in insertion order: the names in the order of
\* their first request
RECURSIVE InsertionOrder(_)
InsertionOrder(names) ==
    IF names = <<>> THEN <<>>
    ELSE LET rest == InsertionOrder(Tail(names))
             IsOther(n) == n # Head(names)
         IN  <<Head(names)>> \o SelectSeq(rest, IsOther)

\* a confidence the float holds exactly: a multiple of 0.25
ExactConfidence(cf) == cf % Hundredths(25) = 0

(* The dict compute_overall_score returns for the metrics of a run, whose
   items() come in insertion order.  sum() adds the floats in that order, so
   where the exact quotient is a half or a threshold, the order decides the
   side the float falls on: with confidences the floats hold exactly the
   quotient is exact, and round() goes to the even neighbour; with the
   intonation confidence, which no float holds exactly, a half falls below
   when that confidence is added last and above otherwise. *)
overall_score_of(ms, order) ==
    LET outcomes == compute_overall_score(ms)
        IsKept(n) == Contributes(ms[n])
        kept == SelectSeq(order, IsKept)
        w == WeightedSum(ms)
        c == ConfidenceSum(ms)
        exact == \A i \in 1..Len(kept) : ExactConfidence(ms[kept[i]].confidence)
        q == w \div c
        score == IF 2 * (w % c) # c THEN CHOOSE s \in RoundedQuotients(w, c) : TRUE
                 ELSE IF exact THEN (IF q % 2 = 0 THEN q ELSE q + 1)
                 ELSE IF ~ExactConfidence(ms[kept[Len(kept)]].confidence) THEN q
                 ELSE q + 1
    IN  IF Cardinality(outcomes) = 1 THEN CHOOSE o \in outcomes : TRUE
        ELSE CHOOSE o \in outcomes :
                /\ o.score_0_100 = score
                /\ o.label = LabelAt(w, c)
                /\ \A o2 \in outcomes : o2.confidence >= o.confidence

\* "except Exception": _build_dummy_overall_score()
OverallOrDummy(o) == IF "raised" \in DOMAIN o THEN UnknownScore ELSE o

\* the dict run_full_analysis returns
\* _is_filler_word: the normalisation and the tokens of the fillers metric
is_filler_word(text) == normalize_token(text) \in FILLER_TOKENS

\* " ".join of the texts of the words
RECURSIVE JoinTexts(_)
JoinTexts(words) ==
    IF words = <<>> THEN ""
    ELSE IF Len(words) = 1 THEN words[1].text
    ELSE words[1].text \o " " \o JoinTexts(Tail(words))

\* segment_duration = 10.0 s
SegmentDuration == 200

\* a closed segment of _build_transcript_from_words; the words of the model
\* carry no probability, so avg_confidence is 0.0
TranscriptSegment(segment_start, current_segment_words) ==
    [start_sec |-> segment_start,
     end_sec |-> current_segment_words[Len(current_segment_words)].end,
     text |-> JoinTexts(current_segment_words),
     avg_confidence |-> 0]

\* the loop that groups the words into chunks of about 10 s
RECURSIVE SegmentWords(_, _, _, _)
SegmentWords(rest, segment_start, current_segment_words, segments) ==
    IF rest = <<>>
    THEN IF current_segment_words # <<>>
         THEN Append(segments, TranscriptSegment(segment_start, current_segment_words))
         ELSE segments
    ELSE LET w == Head(rest)
         IN  IF w.start - segment_start >= SegmentDuration /\ current_segment_words # <<>>
             THEN SegmentWords(Tail(rest), w.start, <<w>>,
                    Append(segments, TranscriptSegment(segment_start, current_segment_words)))
             ELSE SegmentWords(Tail(rest), segment_start,
                               Append(current_segment_words, w), segments)

build_transcript_from_words(words) ==
    LET HasTextKey(w) == w.text # ""
        cleaned_words == SelectSeq(words, HasTextKey)
    IN  IF words = <<>>
        THEN [full_text |-> "", language |-> "en", segments |-> <<>>, tokens |-> <<>>]
        ELSE [full_text |-> JoinTexts(cleaned_words),
              language |-> "en",
              segments |->
                IF cleaned_words = <<>> THEN <<>>
                ELSE SegmentWords(cleaned_words, cleaned_words[1].start, <<>>, <<>>),
              tokens |->
                [i \in 1..Len(cleaned_words) |->
                    [text |-> cleaned_words[i].text,
                     start_sec |-> cleaned_words[i].start,
                     end_sec |-> cleaned_words[i].end,
                     is_filler |-> is_filler_word(cleaned_words[i].text)]]]

run_full_analysis(aj, requested_metrics, failing) ==
    LET names == RequestedOrDefault(requested_metrics)
        looped == MetricLoop(aj, names, failing, <<>>, <<>>)
        transcript_block == build_transcript_from_words(aj.words)
    IN  [status |-> "done",
         overall_score |->
            OverallOrDummy(overall_score_of(looped.metrics, InsertionOrder(names))),
         metrics |-> looped.metrics,
         timeline |-> looped.timeline,
         transcript |-> [full_text |-> transcript_block.full_text,
                         language |-> transcript_block.language]]

---------------------------------------------------------------------------
(* SpecPipeline: run_full_analysis on an analysed recording, and again with
   the requested names permuted *)

MaxRequested == 3   \* requested metric names of a run

\* eight words in 4 s: 120 words a minute
TalkWords ==
    <<Word("Hello.", 0, 8), Word("um", 10, 18), Word("first", 20, 28),
      Word("word", 30, 38), Word("word", 40, 48), Word("So,", 50, 58),
      Word("word", 60, 68), Word("word", 70, 78)>>

\* a 4 s talk with two short word gaps and a flat voice; the same talk with a
\* silence found by VAD, a lively voice and long sentences; an empty recording
AudioJsons ==
    {[words |-> TalkWords, duration_sec |-> 80,
      word_pauses |-> <<WordPause(8, 10), WordPause(48, 50)>>,
      vad_silence_segments |-> <<>>,
      audio_features |-> [mean_pitch_hz |-> Some(Hz(200)), pitch_std_hz |-> Some(410),
                          energy_std |-> Some(10)],
      exact_range |-> None,
      doc |-> Transcript(2, 1, 0)],
     [words |-> TalkWords, duration_sec |-> 80,
      word_pauses |-> <<>>,
      vad_silence_segments |-> <<Silence(28, 40)>>,
      audio_features |-> [mean_pitch_hz |-> Some(Hz(200)), pitch_std_hz |-> Some(Hz(50)),
                          energy_std |-> Some(500)],
      exact_range |-> Some(Hz(120)),
      doc |-> Transcript(2, 0, 1)],
     [words |-> <<>>, duration_sec |-> 0,
      word_pauses |-> <<>>,
      vad_silence_segments |-> <<>>,
      audio_features |-> [mean_pitch_hz |-> None, pitch_std_hz |-> None,
                          energy_std |-> None],
      exact_range |-> None,
      doc |-> Transcript(0, 0, 0)]}

AllMetricNames == {MetricNameSeq[i] : i \in 1..Len(MetricNameSeq)}

IsInjective(names) == \A i, j \in 1..Len(names) : names[i] = names[j] => i = j

\* no names (the default list), up to MaxRequested distinct names, or the
\* same name twice
RequestedLists ==
    {names \in UNION {[1..n -> AllMetricNames] : n \in 0..MaxRequested} : IsInjective(names)}
        \cup {<<"pause_quality", "pause_quality">>}

\* the computations that can raise in a run: spaCy without its model, a
\* malformed pause
RaisingNames == {"content_structure", "pause_quality"}

Range(names) == {names[i] : i \in 1..Len(names)}

Reorderings(names) ==
    {perm \in [1..Len(names) -> Range(names)] :
        \A n \in Range(names) :
            Cardinality({i \in 1..Len(names) : perm[i] = n})
                = Cardinality({i \in 1..Len(names) : names[i] = n})}

InitPipeline ==
    /\ pc = "start"
    /\ audio_json \in AudioJsons
    /\ requested \in RequestedLists
    /\ raising \in SUBSET (RaisingNames \cap Range(RequestedOrDefault(requested)))
    /\ pos = 0
    /\ timeline = <<>>
    /\ response = NotCalled
    /\ earlier = NotCalled
    /\ metrics = <<>> /\ overall = NotCalled
    /\ pauses = <<>> /\ merged = NotCalled /\ remerged = NotCalled
    /\ word_pauses = <<>> /\ vad_silences = <<>>
    /\ duration_sec = 0 /\ boundary_margin = 0 /\ combined = NotCalled
    /\ CallIdle /\ JobsIdle

\* one run of run_full_analysis on audio_json for the names in names
Run(names) ==
    \E full_response \in {run_full_analysis(audio_json, names, raising)} :
        /\ requested' = names
        /\ metrics' = full_response.metrics
        /\ timeline' = full_response.timeline
        /\ overall' = full_response.overall_score
        /\ response' = full_response
        /\ pos' = pos + 1
        /\ UNCHANGED <<audio_json, raising>>
        /\ UNCHANGED mergeVars /\ UNCHANGED combineVars /\ UNCHANGED callVars
        /\ UNCHANGED jobVars

RunFullAnalysis ==
    /\ pc = "start"
    /\ Run(requested)
    /\ earlier' = earlier
    /\ pc' = "done"

\* the same recording analysed again, the requested names in another order
RunPermuted ==
    /\ pc = "done"
    /\ \E perm \in Reorderings(requested) : Run(perm)
    /\ earlier' = response
    /\ pc' = "done again"

NextPipeline == RunFullAnalysis \/ RunPermuted

SpecPipeline == InitPipeline /\ [][NextPipeline]_vars

---------------------------------------------------------------------------
(* Pipeline claims *)

\* C11: a second run with the requested names permuted returns the same
\* per-metric results and the same OverallScore as the first.
C11_OrderIndependent ==
    pc = "done again" =>
        /\ response.metrics = earlier.metrics
        /\ response.overall_score = earlier.overall_score

KnownMetricNames == {"pace", "pause_quality", "fillers", "intonation", "content_structure"}

---------------------------------------------------------------------------
(* Single-pass merge claims *)

\* the accepted intervals after the first k sorted candidates have been walked
AcceptedAfter(k) == MergeLoop(<<>>, SubSeq(SortByStart(pauses), 1, k))

\* a and b share at least the tolerance of 0.1 s
SharesTolerance(a, b) ==
    LET lo == IF a.start >= b.start THEN a.start ELSE b.start
        hi == IF a.end <= b.end THEN a.end ELSE b.end
    IN  hi - lo >= OverlapThreshold

\* the accepted intervals the k-th sorted candidate overlaps by the tolerance
OverlappedBy(k) ==
    {i \in 1..Len(AcceptedAfter(k - 1)) :
        SharesTolerance(SortByStart(pauses)[k], AcceptedAfter(k - 1)[i])}

\* C23: each candidate of the sorted walk changes at most one accepted
\* interval, the first in acceptance order that it overlaps by at least
\* 0.1 s, which it replaces, leaves as it is, or is merged into; every other
\* accepted interval is unchanged; a candidate overlapping none is appended;
\* the output has no more pauses than the input.
C23_SinglePassMerge ==
    pc = "merged" =>
        /\ \A k \in 1..Len(pauses) :
            LET acc == AcceptedAfter(k - 1)
                current == SortByStart(pauses)[k]
                next == AcceptedAfter(k)
            IN  IF OverlappedBy(k) = {} THEN next = Append(acc, current)
                ELSE LET i == CHOOSE x \in OverlappedBy(k) : \A y \in OverlappedBy(k) : x <= y
                     IN  /\ Len(next) = Len(acc)
                         /\ \A j \in (1..Len(acc)) \ {i} : next[j] = acc[j]
                         /\ \/ next[i] = current
                            \/ next[i] = acc[i]
                            \/ /\ next[i].source = acc[i].source
                               /\ next[i].source = current.source
                               /\ next[i].start = Min2(acc[i].start, current.start)
                               /\ next[i].end = Max2(acc[i].end, current.end)
        /\ Len(merged) <= Len(pauses)
        /\ Len(merged) = Len(AcceptedAfter(Len(pauses)))

\* a candidate overlapped the first of two accepted intervals and changed it,
\* and the second was left as it was
C23_Witness ==
    /\ pc = "merged"
    /\ \E k \in 1..Len(pauses) :
        /\ Len(AcceptedAfter(k - 1)) >= 2
        /\ 1 \in OverlappedBy(k)
        /\ AcceptedAfter(k)[1] # AcceptedAfter(k - 1)[1]
        /\ AcceptedAfter(k)[2] = AcceptedAfter(k - 1)[2]

---------------------------------------------------------------------------
(* Voice-activity evidence claims *)

\* the vad silences that survive the boundary trimming of combine_pauses
SurvivingSilences ==
    IF vad_silences # <<>> /\ duration_sec > 0
    THEN {vad_silences[i] : i \in {j \in 1..Len(vad_silences) :
            /\ vad_silences[j].end - vad_silences[j].start > 0
            /\ 4 * vad_silences[j].start > Min2(4 * boundary_margin, duration_sec)
            /\ 4 * vad_silences[j].end
                    < 4 * duration_sec - Min2(4 * boundary_margin, duration_sec)}}
    ELSE {}

\* C25: every vad silence that survives boundary trimming is contained in
\* some output pause of combine_pauses whose source is vad.
C25_VadEvidenceKept ==
    pc = "combined" =>
        \A s \in SurvivingSilences :
            \E i \in 1..Len(combined) :
                /\ combined[i].source = "vad"
                /\ combined[i].start <= s.start
                /\ s.end <= combined[i].end

\* a surviving vad silence that an asr word pause overlaps by the tolerance,
\* and a second surviving vad silence that only a wider vad pause contains
C25_Witness ==
    /\ pc = "combined"
    /\ \E s \in SurvivingSilences :
        \E i \in 1..Len(word_pauses) : SharesTolerance(s, word_pauses[i])
    /\ \E s \in SurvivingSilences :
        /\ \A i \in 1..Len(combined) : combined[i].source = "vad" =>
                <<combined[i].start, combined[i].end>> # <<s.start, s.end>>
        /\ \E i \in 1..Len(combined) :
                combined[i].source = "vad" /\ combined[i].start <= s.start
                                           /\ s.end <= combined[i].end

---------------------------------------------------------------------------
(* Pause counter claims *)

\* the number of timeline events of the given quality
EventsOfQuality(events, quality) ==
    Cardinality({i \in 1..Len(events) : events[i].quality = quality})

\* C28: for every result of compute_pause_quality_metric that is not
\* abstained, details.long_pauses is the number of timeline events of
\* quality long, details.short_pauses the number of quality very_short, and
\* helpful_count + awkward_count = total_pauses = the number of events.
C28_CountersAgree ==
    (pc = "computed" /\ args.fn = "compute_pause_quality_metric"
                     /\ ~result.metric.abstained) =>
        /\ result.metric.details.long_pauses = EventsOfQuality(result.timeline, "long")
        /\ result.metric.details.short_pauses
                = EventsOfQuality(result.timeline, "very_short")
        /\ result.metric.details.helpful_count + result.metric.details.awkward_count
                = result.metric.details.total_pauses
        /\ result.metric.details.total_pauses = Len(result.timeline)

---------------------------------------------------------------------------
(* Segment word count claims *)

\* the words counted by the segments: sum over segments of wpm * width / 60
RECURSIVE SegmentWordCount(_)
SegmentWordCount(segment_stats) ==
    IF segment_stats = <<>> THEN 0
    ELSE segment_stats[1].wpm.words + SegmentWordCount(Tail(segment_stats))

\* C29: every word passed to compute_pace_metric is counted in exactly one
\* fixed segment, so the word counts of the segments add up to the word
\* count of the overall rate.
C29_EveryWordCounted ==
    (pc = "paced" /\ ~result.abstained) =>
        /\ result.details.average_wpm.words = Len(args.words)
        /\ SegmentWordCount(result.details.segment_stats) = Len(args.words)

---------------------------------------------------------------------------
(* Timeline claims *)

\* the reconciled pauses of the recording
ReconciledPauses ==
    combine_pauses(audio_json.word_pauses, audio_json.vad_silence_segments,
                   audio_json.duration_sec, DefaultBoundaryMargin)

\* pause_quality was requested, did not raise and did not abstain
PauseQualityScored ==
    /\ "pause_quality" \in Range(RequestedOrDefault(requested))
    /\ "pause_quality" \notin raising
    /\ ~response.metrics["pause_quality"].abstained

\* C30: the timeline of run_full_analysis holds exactly one pause event per
\* reconciled pause, in ascending start order, for every requested list,
\* also one naming pause_quality more than once; it is empty when
\* pause_quality is not requested, abstains or fails.
C30_OneEventPerPause ==
    pc \in {"done", "done again"} =>
        IF PauseQualityScored
        THEN /\ Len(response.timeline) = Len(ReconciledPauses)
             /\ \A i \in 1..Len(response.timeline) :
                    /\ response.timeline[i].type = "pause"
                    /\ response.timeline[i].start_sec = ReconciledPauses[i].start
                    /\ response.timeline[i].end_sec = ReconciledPauses[i].end
             /\ \A i, j \in 1..Len(response.timeline) :
                    i < j => response.timeline[i].start_sec <= response.timeline[j].start_sec
        ELSE response.timeline = <<>>

---------------------------------------------------------------------------
(* Sliding spike detection claims *)

\* the start times of the filler words of the call
FillerStarts == {args.words[i].start : i \in {j \in 1..Len(args.words) : IsFiller(args.words[j])}}

\* the window positions from the first filler event, a quarter window apart,
\* up to the last filler event
PositionsBetweenFillers ==
    IF FillerStarts = {} THEN {}
    ELSE LET step == args.window_sec \div 4
         IN  {SetMin(FillerStarts) + k * step :
                k \in 0..((SetMax(FillerStarts) - SetMin(FillerStarts)) \div step)}

\* the window at position p is reported: it lies in a reported spike, a whole
\* number of windows after the spike's start
ReportedWindow(p) ==
    \E i \in 1..Len(result) :
        /\ result[i].start_sec <= p
        /\ p + args.window_sec <= result[i].end_sec
        /\ (p - result[i].start_sec) % args.window_sec = 0

\* every reported spike has a rate of at least the threshold
SpikeRatesAtLeastThreshold ==
    \A i \in 1..Len(result) :
        result[i].filler_rate.events * TicksPerMinute
            >= args.spike_threshold_per_min * result[i].filler_rate.per

\* C24 as stated: the windows start at the first filler event and advance by
\* a quarter window up to the last filler event; a position is reported if
\* and only if its rate is at least the threshold.
C24_BetweenFillerEvents ==
    (pc = "spiked" /\ args.words # <<>>) =>
        /\ \A p \in PositionsBetweenFillers : IsSpikeWindow(p) <=> ReportedWindow(p)
        /\ \A i \in 1..Len(result) : result[i].start_sec \in PositionsBetweenFillers
        /\ SpikeRatesAtLeastThreshold

\* C24: the windows start at the start of the first word and advance by a
\* quarter window for as long as the window ends by the end of the last
\* word; a position is reported if and only if its rate is at least the
\* threshold, every reported spike starts at such a position and has a rate
\* of at least the threshold.
C24_AcrossTheTalk ==
    (pc = "spiked" /\ args.words # <<>>) =>
        /\ \A p \in SpikePositions : IsSpikeWindow(p) <=> ReportedWindow(p)
        /\ \A i \in 1..Len(result) :
                /\ result[i].start_sec \in SpikePositions
                /\ IsSpikeWindow(result[i].start_sec)
                /\ result[i].end_sec - args.window_sec \in SpikePositions
                /\ IsSpikeWindow(result[i].end_sec - args.window_sec)
        /\ SpikeRatesAtLeastThreshold

\* a talk that opens with a word that is no filler: the spike reported starts
\* with that word, before the first filler, and a later window is no spike
C24_Witness ==
    /\ pc = "spiked"
    /\ Len(result) >= 1
    /\ FillerStarts # {}
    /\ result[1].start_sec < SetMin(FillerStarts)
    /\ \E p \in SpikePositions : ~IsSpikeWindow(p)

---------------------------------------------------------------------------
(* jobs/job_manager.py : JobManager, and the handlers of
   api/v1/presentations.py.  The handlers and process_job are coroutines of
   one event loop: a handler runs from its first line to its return, and
   process_job runs up to "await asyncio.to_thread(...)" and, once the thread
   has finished, from there to its end.  created_at and updated_at are left
   out. *)

MaxJobs == 2    \* jobs created in one behaviour

\* job_id = f"pres_{uuid.uuid4().hex[:10]}": the n-th job gets the id n
JobIds == 1..MaxJobs

\* the recording audio_to_json finds at audio_url: a talk, an empty
\* recording; at "missing.wav" there is no file
Recordings ==
    [x \in {"talk.wav", "empty.wav"} |->
        IF x = "talk.wav" THEN CHOOSE aj \in AudioJsons : aj.word_pauses # <<>>
        ELSE CHOOSE aj \in AudioJsons : aj.words = <<>>]

AudioUrls == DOMAIN Recordings \cup {"missing.wav"}

\* request.model_dump(): the payload of POST /presentations; an empty
\* requested_metrics asks for the default list
JobInputs == {[audio_url |-> u, requested_metrics |-> <<>>] : u \in AudioUrls}

\* what "await asyncio.to_thread(run_full_analysis, ...)" gives: the returned
\* dict, or the ValueError run_full_analysis raises when there is no file at
\* audio_path
Analysis(input_dict) ==
    IF input_dict.audio_url \in DOMAIN Recordings
    THEN [raised |-> FALSE,
          value |-> run_full_analysis(Recordings[input_dict.audio_url],
                                      input_dict.requested_metrics, {})]
    ELSE [raised |-> TRUE,
          value |-> [error_type |-> "ValueError",
                     message |-> "Error validating inputs: Audio file not found: "
                                    \o input_dict.audio_url]]

\* the dict create_job stores
NewJob(job_id, input_data) ==
    [job_id |-> job_id, status |-> "queued", input |-> input_data,
     result |-> None, failure |-> None]

\* "job[...] = ..." in process_job writes to the dict that "job = _JOBS[job_id]"
\* named: it shows in _JOBS only while that dict is still stored there
StoreJob_by_key(jobs, job_id, job) == Put(jobs, job_id, job)

StoreJob(jobs, job_id, job) ==
    IF job_id \in DOMAIN jobs THEN [jobs EXCEPT ![job_id] = job] ELSE jobs

\* the lines after the await
JobDone(job, result_) == [job EXCEPT !.status = "done", !.result = Some(result_)]

\* the except branch
JobFailed_keeps_processing(job, e) ==
    [job EXCEPT !.failure = Some([code |-> "analysis_error", message |-> e.message,
                                  details |-> [error_type |-> e.error_type]])]

JobFailed(job, e) ==
    [job EXCEPT !.status = "failed",
                !.failure = Some([code |-> "analysis_error", message |-> e.message,
                                  details |-> [error_type |-> e.error_type]])]

get_job(job_id) == IF job_id \in DOMAIN JOBS THEN Some(JOBS[job_id]) ELSE None

get_job_status(job_id) == IF job_id \in DOMAIN JOBS THEN Some(JOBS[job_id].status) ELSE None

list_jobs == DOMAIN JOBS

\* raise HTTPException(status_code=...)
HTTPException(status_code) == [code |-> status_code, body |-> [detail |-> "error"]]

\* GET /presentations/{job_id}
get_presentation_status(jobs, job_id) ==
    IF job_id \notin DOMAIN jobs THEN HTTPException(404)
    ELSE LET job == jobs[job_id]
         IN  IF job.status \in {"queued", "processing"}
             THEN [code |-> 200, body |-> [job_id |-> job_id, status |-> job.status]]
             ELSE IF job.status = "failed"
             THEN [code |-> 200,
                   body |-> [job_id |-> job_id, status |-> "failed",
                             failure |-> job.failure[1]]]
             ELSE IF job.status = "done"
             THEN [code |-> 200,
                   body |-> [job_id |-> job_id, status |-> "done",
                             overall_score |-> job.result[1].overall_score,
                             available_metrics |-> DOMAIN job.result[1].metrics]]
             ELSE HTTPException(500)

\* GET /presentations/{job_id}/full
get_presentation_full_serves_unfinished(jobs, job_id) ==
    IF job_id \notin DOMAIN jobs THEN HTTPException(404)
    ELSE IF jobs[job_id].status = "failed" THEN HTTPException(409)
    ELSE [code |-> 200,
          body |-> [job_id |-> job_id, status |-> "done", result |-> jobs[job_id].result]]

get_presentation_full(jobs, job_id) ==
    IF job_id \notin DOMAIN jobs THEN HTTPException(404)
    ELSE IF jobs[job_id].status # "done" THEN HTTPException(409)
    ELSE [code |-> 200,
          body |-> [job_id |-> job_id, status |-> "done", result |-> jobs[job_id].result]]

\* transcript_data.get(key, [])
GetOrEmpty(transcript_data, key) ==
    IF key \in DOMAIN transcript_data THEN transcript_data[key] ELSE <<>>

\* GET /presentations/{job_id}/transcript
get_presentation_transcript(jobs, job_id) ==
    IF job_id \notin DOMAIN jobs THEN HTTPException(404)
    ELSE LET job == jobs[job_id]
         IN  IF job.status \in {"queued", "processing"}
             THEN [code |-> 200, body |-> [job_id |-> job_id, status |-> job.status]]
             ELSE IF job.status = "failed" THEN HTTPException(409)
             ELSE LET transcript_data == job.result[1].transcript
                  IN  [code |-> 200,
                       body |-> [job_id |-> job_id, status |-> "done",
                                 transcript |->
                                    [full_text |-> transcript_data.full_text,
                                     language |-> transcript_data.language,
                                     segments |-> GetOrEmpty(transcript_data, "segments"),
                                     tokens |-> GetOrEmpty(transcript_data, "tokens")]]]

\* DELETE /presentations/{job_id}: delete_job returned True, or 404
delete_presentation(jobs, job_id) ==
    IF job_id \in DOMAIN jobs THEN [code |-> 204, body |-> [detail |-> "no content"]]
    ELSE HTTPException(404)

---------------------------------------------------------------------------
(* SpecJobs: requests to the API served while the jobs are processed *)

Served(request, job_id, served) ==
    http' = [request |-> request, job_id |-> job_id,
             code |-> served.code, body |-> served.body]

InitJobs ==
    /\ pc = "serving"
    /\ JOBS = <<>>
    /\ tasks = <<>>
    /\ http = [request |-> "none", job_id |-> 0, code |-> 0, body |-> [detail |-> "none"]]
    /\ pauses = <<>> /\ merged = NotCalled /\ remerged = NotCalled
    /\ word_pauses = <<>> /\ vad_silences = <<>>
    /\ duration_sec = 0 /\ boundary_margin = 0 /\ combined = NotCalled
    /\ metrics = <<>> /\ overall = NotCalled
    /\ CallIdle /\ PipelineIdle

Elsewhere ==
    /\ UNCHANGED pc
    /\ UNCHANGED mergeVars /\ UNCHANGED combineVars /\ UNCHANGED scoreVars
    /\ UNCHANGED callVars /\ UNCHANGED pipelineVars

\* POST /presentations: create_job, then process_job is added as a
\* background task
CreatePresentation(input_data) ==
    \E job_id \in JobIds :
        /\ job_id = Cardinality(DOMAIN tasks) + 1
        /\ JOBS' = Put(JOBS, job_id, NewJob(job_id, input_data))
        /\ tasks' = Put(tasks, job_id, [at |-> "scheduled", job |-> None])
        /\ Served("POST /presentations", job_id,
                  [code |-> 201, body |-> [job_id |-> job_id, status |-> "queued"]])
        /\ Elsewhere

\* process_job, from its first line to the await
ProcessJobStart(job_id) ==
    /\ job_id \in DOMAIN tasks
    /\ tasks[job_id].at = "scheduled"
    /\ IF job_id \notin DOMAIN JOBS
       THEN /\ tasks' = [tasks EXCEPT ![job_id].at = "returned"]
            /\ UNCHANGED JOBS
       ELSE LET job == [JOBS[job_id] EXCEPT !.status = "processing"]
            IN  /\ JOBS' = StoreJob(JOBS, job_id, job)
                /\ tasks' = [tasks EXCEPT ![job_id] = [at |-> "awaiting", job |-> Some(job)]]
    /\ UNCHANGED http
    /\ Elsewhere

\* process_job, from the await to its end
ProcessJobFinish(job_id) ==
    /\ job_id \in DOMAIN tasks
    /\ tasks[job_id].at = "awaiting"
    /\ \E outcome \in {Analysis(tasks[job_id].job[1].input)} :
        \E job \in {IF outcome.raised THEN JobFailed(tasks[job_id].job[1], outcome.value)
                    ELSE JobDone(tasks[job_id].job[1], outcome.value)} :
            /\ JOBS' = StoreJob(JOBS, job_id, job)
            /\ tasks' = [tasks EXCEPT ![job_id] = [at |-> "returned", job |-> Some(job)]]
    /\ UNCHANGED http
    /\ Elsewhere

GetPresentationStatus(job_id) ==
    /\ Served("GET /presentations/{job_id}", job_id, get_presentation_status(JOBS, job_id))
    /\ UNCHANGED <<JOBS, tasks>>
    /\ Elsewhere

GetPresentationFull(job_id) ==
    /\ Served("GET /presentations/{job_id}/full", job_id, get_presentation_full(JOBS, job_id))
    /\ UNCHANGED <<JOBS, tasks>>
    /\ Elsewhere

GetPresentationTranscript(job_id) ==
    /\ Served("GET /presentations/{job_id}/transcript", job_id,
              get_presentation_transcript(JOBS, job_id))
    /\ UNCHANGED <<JOBS, tasks>>
    /\ Elsewhere

\* DELETE /presentations/{job_id}: delete_job
DeletePresentation(job_id) ==
    /\ Served("DELETE /presentations/{job_id}", job_id, delete_presentation(JOBS, job_id))
    /\ JOBS' = [x \in DOMAIN JOBS \ {job_id} |-> JOBS[x]]
    /\ UNCHANGED tasks
    /\ Elsewhere

NextJobs ==
    \/ \E input_data \in JobInputs : CreatePresentation(input_data)
    \/ \E job_id \in JobIds : ProcessJobStart(job_id)
    \/ \E job_id \in JobIds : ProcessJobFinish(job_id)
    \/ \E job_id \in JobIds : GetPresentationStatus(job_id)
    \/ \E job_id \in JobIds : GetPresentationFull(job_id)
    \/ \E job_id \in JobIds : GetPresentationTranscript(job_id)
    \/ \E job_id \in JobIds : DeletePresentation(job_id)

SpecJobs == InitJobs /\ [][NextJobs]_vars

---------------------------------------------------------------------------
(* Job and API claims *)

\* the step serves a request to the endpoint
Serves(request) == http' # http /\ http'.request = request

\* C21: GET /presentations/{job_id}/full answers 404 for an unknown id, 409
\* for a job that is queued, processing or failed, and the stored result for
\* a job that is done; in no interleaving of create, process, get and delete
\* is a result served for a job that is not done.
C21_FullOnlyWhenDone ==
    [][Serves("GET /presentations/{job_id}/full") =>
        LET job_id == http'.job_id
        IN  /\ job_id \notin DOMAIN JOBS => http'.code = 404
            /\ (job_id \in DOMAIN JOBS
                    /\ JOBS[job_id].status \in {"queued", "processing", "failed"})
                    => http'.code = 409
            /\ (job_id \in DOMAIN JOBS /\ JOBS[job_id].status = "done")
                    => http'.code = 200
            /\ http'.code = 200 =>
                    /\ job_id \in DOMAIN JOBS
                    /\ JOBS[job_id].status = "done"
                    /\ JOBS[job_id].result # None
                    /\ http'.body.result = JOBS[job_id].result
            /\ http'.code \in {200, 404, 409}]_vars

\* the result of the first job is served while the second is still processing
C21_Witness ==
    /\ pc = "serving"
    /\ http.request = "GET /presentations/{job_id}/full"
    /\ http.code = 200
    /\ http.job_id = 1
    /\ 2 \in DOMAIN JOBS
    /\ JOBS[2].status = "processing"

\* C22: once the job is done, GET /presentations/{job_id}/transcript returns
\* the detailed transcript; when the recording has at least one word, the
\* segments and the tokens are not both empty and every token has an
\* is_filler flag.
C22_TranscriptHasTokens ==
    (/\ pc = "serving"
     /\ http.request = "GET /presentations/{job_id}/transcript"
     /\ http.code = 200
     /\ http.body.status = "done"
     /\ Recordings[tasks[http.job_id].job[1].input.audio_url].words # <<>>) =>
        /\ ~(http.body.transcript.segments = <<>> /\ http.body.transcript.tokens = <<>>)
        /\ \A i \in 1..Len(http.body.transcript.tokens) :
                "is_filler" \in DOMAIN http.body.transcript.tokens[i]

\* the moves of a job's status
StatusMoves(old, new) ==
    \/ new = old
    \/ <<old, new>> \in {<<"queued", "processing">>, <<"processing", "done">>,
                         <<"processing", "failed">>}

\* done with a result, failed with a failure, and never both
StatusAgrees(job) ==
    /\ job.status \in {"queued", "processing", "done", "failed"}
    /\ job.status = "done" <=> job.result # None
    /\ job.status = "failed" <=> job.failure # None
    /\ ~(job.result # None /\ job.failure # None)

\* C26: a job's status only moves queued -> processing -> done or queued ->
\* processing -> failed; done and failed are never left; status = done if and
\* only if result is set, status = failed if and only if failure is set,
\* never both; an exception raised by the analysis leaves the job failed with
\* failure code analysis_error; a process_job step writes no other job's
\* record.
C26_JobLifecycle ==
    /\ [](pc = "serving" =>
            /\ \A job_id \in DOMAIN JOBS :
                /\ StatusAgrees(JOBS[job_id])
                /\ get_job_status(job_id) = Some(JOBS[job_id].status)
            /\ \A job_id \in DOMAIN tasks :
                tasks[job_id].job # None => StatusAgrees(tasks[job_id].job[1]))
    /\ [][pc = "serving" =>
            /\ \A job_id \in DOMAIN JOBS \cap DOMAIN JOBS' :
                StatusMoves(JOBS[job_id].status, JOBS'[job_id].status)
            /\ \A job_id \in DOMAIN JOBS' \ DOMAIN JOBS : JOBS'[job_id].status = "queued"
            /\ \A job_id \in DOMAIN tasks :
                /\ (tasks[job_id].job # None) =>
                        StatusMoves(tasks[job_id].job[1].status,
                                    tasks'[job_id].job[1].status)
                /\ (/\ tasks[job_id].at = "awaiting" /\ tasks'[job_id].at = "returned"
                    /\ tasks[job_id].job[1].input.audio_url \notin DOMAIN Recordings) =>
                        /\ tasks'[job_id].job[1].status = "failed"
                        /\ tasks'[job_id].job[1].failure[1].code = "analysis_error"
                        /\ job_id \in DOMAIN JOBS => JOBS'[job_id] = tasks'[job_id].job[1]
                /\ tasks'[job_id] # tasks[job_id] =>
                        \A other \in DOMAIN JOBS \ {job_id} :
                            other \in DOMAIN JOBS' /\ JOBS'[other] = JOBS[other]]_vars

\* the first job failed on a missing file and the second is done
C26_Witness ==
    /\ pc = "serving"
    /\ DOMAIN JOBS = {1, 2}
    /\ JOBS[1].status = "failed"
    /\ JOBS[1].failure[1].code = "analysis_error"
    /\ JOBS[2].status = "done"
    /\ JOBS[2].result # None

\* the jobs delete_job has removed
Deleted == DOMAIN tasks \ DOMAIN JOBS

\* C27: once delete_job(job_id) has returned True, no later step of the
\* process_job running on that job makes it visible again: get_job returns
\* None, list_jobs omits it and the API answers 404, in every later state.
C27_DeleteIsFinal ==
    /\ [](pc = "serving" =>
            \A job_id \in Deleted :
                /\ get_job(job_id) = None
                /\ get_job_status(job_id) = None
                /\ job_id \notin list_jobs
                /\ get_presentation_status(JOBS, job_id).code = 404
                /\ get_presentation_full(JOBS, job_id).code = 404
                /\ get_presentation_transcript(JOBS, job_id).code = 404
                /\ delete_presentation(JOBS, job_id).code = 404)
    /\ [][pc = "serving" =>
            /\ \A job_id \in Deleted : job_id \notin DOMAIN JOBS'
            /\ (http' # http /\ http'.job_id \in Deleted) => http'.code = 404]_vars

\* the job was deleted while its analysis ran, the analysis has finished
\* since, and a request for the job was answered 404
C27_Witness ==
    /\ pc = "serving"
    /\ 1 \in Deleted
    /\ tasks[1].at = "returned"
    /\ tasks[1].job # None
    /\ tasks[1].job[1].status = "done"
    /\ http.request = "GET /presentations/{job_id}"
    /\ http.job_id = 1
    /\ http.code = 404

====
